---- MODULE Spec2Model ----
(***************************************************************************)
(* Model of the retake-detection and take-selection engine of the video    *)
(* editor (src/video_editor/analyzer.py).                                   *)
(*                                                                          *)
(* Time is counted in ticks of 0.05 s, the merge tolerance of               *)
(* _merge_overlapping_ranges, so every time constant of the source is a     *)
(* whole number of ticks.  Texts are strings; a character of a text is the  *)
(* one-character string SubSeq(s, i, i).                                    *)
(***************************************************************************)
EXTENDS Integers, Sequences, FiniteSets, TLC

(***************************************************************************)
(* Characters and strings (Python str methods used by the analyzer).        *)
(***************************************************************************)
Char(s, i) == SubSeq(s, i, i)

\* The letters of the texts: ASCII and the accented letters of the Hungarian
\* lexicon.  The module's character set is Latin-1, so o-double-acute and
\* u-double-acute are written with their Latin-1 stand-ins, o-tilde and
\* u-circumflex.
UpperChars == "ABCDEFGHIJKLMNOPQRSTUVWXYZÖÕÓÁÉÍÜÛÚ"
LowerChars == "abcdefghijklmnopqrstuvwxyzöõóáéíüûú"
Digits == "0123456789"

CharsOf(s) == { Char(s, i) : i \in 1..Len(s) }

UpperSet == CharsOf(UpperChars)

LowerSet == CharsOf(LowerChars)

LowerChar(c) ==
    IF c \in UpperSet
    THEN Char(LowerChars, CHOOSE i \in 1..Len(UpperChars) : Char(UpperChars, i) = c)
    ELSE c

RECURSIVE lower(_)
lower(s) == IF Len(s) = 0 THEN "" ELSE LowerChar(Char(s, 1)) \o lower(SubSeq(s, 2, Len(s)))

IsSpace(c) == c \in {" ", "\t", "\n", "\r"}

DigitSet == CharsOf(Digits)

IsDigit(c) == c \in DigitSet

\* \w of Python's re on str: letters, digits and the underscore.
WordChars == LowerSet \cup UpperSet \cup DigitSet \cup {"_"}

IsWordChar(c) == c \in WordChars

RECURSIVE rstrip(_)
rstrip(s) ==
    IF Len(s) > 0 /\ IsSpace(Char(s, Len(s))) THEN rstrip(SubSeq(s, 1, Len(s) - 1)) ELSE s

RECURSIVE lstrip(_)
lstrip(s) ==
    IF Len(s) > 0 /\ IsSpace(Char(s, 1)) THEN lstrip(SubSeq(s, 2, Len(s))) ELSE s

strip(s) == lstrip(rstrip(s))

\* str.split(): the maximal runs of non-space characters, in order.
RECURSIVE SplitFrom(_, _, _)
SplitFrom(s, i, cur) ==
    IF i > Len(s)
    THEN IF cur = "" THEN << >> ELSE << cur >>
    ELSE IF IsSpace(Char(s, i))
         THEN IF cur = "" THEN SplitFrom(s, i + 1, "")
                          ELSE << cur >> \o SplitFrom(s, i + 1, "")
         ELSE SplitFrom(s, i + 1, cur \o Char(s, i))

split(s) == SplitFrom(s, 1, "")

\* " ".join(words)
RECURSIVE join(_)
join(words) ==
    IF Len(words) = 0 THEN ""
    ELSE IF Len(words) = 1 THEN words[1]
    ELSE words[1] \o " " \o join(Tail(words))

startswith(s, p) == Len(s) >= Len(p) /\ SubSeq(s, 1, Len(p)) = p

endswith(s, p) == Len(s) >= Len(p) /\ SubSeq(s, Len(s) - Len(p) + 1, Len(s)) = p

Max(a, b) == IF a >= b THEN a ELSE b

Min(a, b) == IF a <= b THEN a ELSE b

(***************************************************************************)
(* Text similarity (rapidfuzz.fuzz).  fuzz.ratio is the normalized Indel    *)
(* similarity 100 * 2*LCS(a,b) / (|a| + |b|), and 100 for two empty        *)
(* strings; it is kept as the fraction num/den so that the comparisons     *)
(* with the thresholds are exact.                                           *)
(***************************************************************************)
\* One row of the longest-common-subsequence table: prev is the row of the
\* first i-1 characters of a, the result the row of its first i characters.
RECURSIVE LcsRow(_, _, _, _, _, _)
LcsRow(a, b, i, prev, j, acc) ==
    IF j > Len(b) THEN acc
    ELSE LET left == IF j = 1 THEN 0 ELSE acc[j - 1]
             diag == IF j = 1 THEN 0 ELSE prev[j - 1]
             cell == IF Char(a, i) = Char(b, j) THEN diag + 1 ELSE Max(prev[j], left)
         IN  LcsRow(a, b, i, prev, j + 1, Append(acc, cell))

RECURSIVE LcsRows(_, _, _, _)
LcsRows(a, b, i, prev) ==
    IF i > Len(a) THEN prev
    ELSE LET row == LcsRow(a, b, i, prev, 1, << >>)
         IN  IF Len(row) = Len(b) THEN LcsRows(a, b, i + 1, row) ELSE row

LCS(a, b) ==
    IF Len(a) = 0 \/ Len(b) = 0 THEN 0
    ELSE LcsRows(a, b, 1, [j \in 1..Len(b) |-> 0])[Len(b)]

fuzz_ratio(a, b) ==
    IF Len(a) + Len(b) = 0 THEN [num |-> 1, den |-> 1]
    ELSE [num |-> 2 * LCS(a, b), den |-> Len(a) + Len(b)]

\* r1 >= r2 for two fractions.
FracGE(r1, r2) == r1.num * r2.den >= r2.num * r1.den

FracMax(r1, r2) == IF FracGE(r1, r2) THEN r1 ELSE r2

\* ratio / 100.0 >= pct / 100
AtLeast(r, pct) == r.num * 100 >= pct * r.den

\* fuzz.partial_ratio: the best fuzz.ratio of the shorter string against a
\* window of the longer one: every window of the shorter string's length,
\* and the shorter windows at the two ends of the longer string.
PartialWindows(long, m) ==
    {SubSeq(long, 1, k) : k \in 1..(m - 1)}
        \cup {SubSeq(long, i, i + m - 1) : i \in 1..(Len(long) - m + 1)}
        \cup {SubSeq(long, i, Len(long)) : i \in (Len(long) - m + 2)..Len(long)}

PartialOneWay(short, long) ==
    LET ratios == { fuzz_ratio(short, w) : w \in PartialWindows(long, Len(short)) }
    IN  CHOOSE r \in ratios : \A q \in ratios : FracGE(r, q)

fuzz_partial_ratio(a, b) ==
    IF Len(a) = 0 \/ Len(b) = 0
    THEN IF Len(a) = Len(b) THEN [num |-> 1, den |-> 1] ELSE [num |-> 0, den |-> 1]
    ELSE IF Len(a) < Len(b) THEN PartialOneWay(a, b)
    ELSE IF Len(b) < Len(a) THEN PartialOneWay(b, a)
    ELSE FracMax(PartialOneWay(a, b), PartialOneWay(b, a))

(***************************************************************************)
(* The Hungarian lexicon and the take metrics (_compute_take_metrics).      *)
(***************************************************************************)
HUNGARIAN_HESITATION_MARKERS ==
    { [marker |-> "öö", type |-> "filled_pause"],
      [marker |-> "ööö", type |-> "filled_pause"],
      [marker |-> "öööö", type |-> "filled_pause"],
      [marker |-> "hmm", type |-> "filled_pause"],
      [marker |-> "hm", type |-> "filled_pause"],
      [marker |-> "aha", type |-> "filled_pause"],
      [marker |-> "õ", type |-> "filled_pause"],
      [marker |-> "szóval", type |-> "hedge"],
      [marker |-> "tehát", type |-> "hedge"],
      [marker |-> "hát", type |-> "hedge"],
      [marker |-> "ugye", type |-> "hedge"],
      [marker |-> "izé", type |-> "placeholder"],
      [marker |-> "izélni", type |-> "placeholder"],
      [marker |-> "hogyishívják", type |-> "placeholder"],
      [marker |-> "na", type |-> "restart_signal"],
      [marker |-> "nos", type |-> "restart_signal"],
      [marker |-> "oké", type |-> "restart_signal"],
      [marker |-> "nem", type |-> "correction_signal"],
      [marker |-> "azaz", type |-> "correction_signal"],
      [marker |-> "vagyis", type |-> "correction_signal"],
      [marker |-> "helyesebben", type |-> "correction_signal"],
      [marker |-> "bocsánat", type |-> "correction_signal"],
      [marker |-> "várj", type |-> "correction_signal"] }

\* The words w of the patterns \bw\s*$.
HUNGARIAN_INCOMPLETE_PATTERNS ==
    {"és", "de", "hogy", "ami", "akkor", "mert", "vagy", "ha", "mint", "ahol"}

\* The strings w of the patterns w\s*$.
HUNGARIAN_COMPLETION_MARKERS ==
    {".", "!", "?", "köszönöm", "rendben", "ennyi", "vége"}

\* A word boundary \b before position i (the pattern's next character, the one
\* at i, is a word character).
BoundaryBefore(text, i) == i = 1 \/ ~IsWordChar(Char(text, i - 1))

\* The maximal runs of word characters of a text, in order.  A marker is made
\* of word characters, so \bmarker\b matches exactly the runs equal to it.
RECURSIVE WordRunsFrom(_, _, _)
WordRunsFrom(s, i, cur) ==
    IF i > Len(s)
    THEN IF cur = "" THEN << >> ELSE << cur >>
    ELSE IF ~IsWordChar(Char(s, i))
         THEN IF cur = "" THEN WordRunsFrom(s, i + 1, "")
                          ELSE << cur >> \o WordRunsFrom(s, i + 1, "")
         ELSE WordRunsFrom(s, i + 1, cur \o Char(s, i))

\* len(re.findall(r'\b' + re.escape(marker) + r'\b', text)), on the runs of text
CountMatches(marker, runs) == Cardinality({ i \in 1..Len(runs) : runs[i] = marker })

RECURSIVE SumMatches(_, _)
SumMatches(markers, runs) ==
    IF markers = {} THEN 0
    ELSE LET m == CHOOSE x \in markers : TRUE
         IN  CountMatches(m.marker, runs) + SumMatches(markers \ {m}, runs)

\* re.search(r'\bw\s*$', text)
SearchWordAtEnd(w, text) ==
    LET t == rstrip(text)
    IN  endswith(t, w) /\ BoundaryBefore(t, Len(t) - Len(w) + 1)

\* re.search(r'w\s*$', text)
SearchAtEnd(w, text) == endswith(rstrip(text), w)

MarkerTypes == { m.type : m \in HUNGARIAN_HESITATION_MARKERS }

compute_take_metrics(segment, position) ==
    LET text == lower(segment.text)
        OfType(t) == { m \in HUNGARIAN_HESITATION_MARKERS : m.type = t }
        runs == WordRunsFrom(text, 1, "")
        matches == { << t, SumMatches(OfType(t), runs) >> : t \in MarkerTypes }
        Matches(t) == (CHOOSE c \in matches : c[1] = t)[2]
    IN  [ word_count |-> Len(split(text)),
          duration |-> segment.end - segment.start,
          hesitation_count |->
              Matches("filled_pause") + Matches("hedge") + Matches("placeholder")
                  + Matches("restart_signal"),
          hesitation_types |-> [ t \in MarkerTypes |-> Matches(t) ],
          incomplete_sentence |->
              \E w \in HUNGARIAN_INCOMPLETE_PATTERNS : SearchWordAtEnd(w, text),
          has_completion_marker |->
              \E w \in HUNGARIAN_COMPLETION_MARKERS : SearchAtEnd(w, text),
          correction_signals |-> Matches("correction_signal"),
          position |-> position ]

(***************************************************************************)
(* Take selection: response parsing, validation, rule-based fallback.       *)
(***************************************************************************)
\* The absent value (Python's None) of decision and best_index.
None == -1

RECURSIVE upper(_)
upper(s) ==
    IF Len(s) = 0 THEN ""
    ELSE LET c == Char(s, 1)
             u == IF c \in LowerSet
                  THEN Char(UpperChars, CHOOSE i \in 1..Len(LowerChars) : Char(LowerChars, i) = c)
                  ELSE c
         IN  u \o upper(SubSeq(s, 2, Len(s)))

\* s.split(sep) for a one-character separator.
RECURSIVE SplitOn(_, _, _, _)
SplitOn(s, sep, i, cur) ==
    IF i > Len(s) THEN << cur >>
    ELSE IF Char(s, i) = sep THEN << cur >> \o SplitOn(s, sep, i + 1, "")
    ELSE SplitOn(s, sep, i + 1, cur \o Char(s, i))

\* s.split(":", 1)[1]: what follows the first colon (s holds one).
AfterFirstColon(s) ==
    LET k == CHOOSE i \in 1..Len(s) : Char(s, i) = ":" /\ \A j \in 1..(i - 1) : Char(s, j) # ":"
    IN  SubSeq(s, k + 1, Len(s))

DigitValue(c) == (CHOOSE i \in 1..Len(Digits) : Char(Digits, i) = c) - 1

\* int(re.search(r'\d+', s).group()): the value of the first run of digits of
\* s, None when s holds no digit.
RECURSIVE DigitRun(_, _, _)
DigitRun(s, i, acc) ==
    IF i > Len(s) \/ ~IsDigit(Char(s, i)) THEN acc
    ELSE DigitRun(s, i + 1, 10 * acc + DigitValue(Char(s, i)))

FirstInt(s) ==
    IF \E i \in 1..Len(s) : IsDigit(Char(s, i))
    THEN DigitRun(s, CHOOSE i \in 1..Len(s) :
                        IsDigit(Char(s, i)) /\ \A j \in 1..(i - 1) : ~IsDigit(Char(s, j)), 0)
    ELSE None

\* The loop over the lines of the response: acc holds decision (has: whether it
\* is set) and reasoning.
RECURSIVE ParseLines(_, _, _)
ParseLines(lines, i, acc) ==
    IF i > Len(lines) THEN acc
    ELSE LET line_stripped == strip(lines[i])
             up == upper(line_stripped)
         IN  IF startswith(up, "DECISION:")
             THEN LET n == FirstInt(strip(AfterFirstColon(line_stripped)))
                  IN  ParseLines(lines, i + 1,
                         IF n # None THEN [acc EXCEPT !.has = TRUE, !.decision = n - 1]
                                     ELSE acc)
             ELSE IF startswith(up, "REASONING:")
             THEN ParseLines(lines, i + 1,
                     [acc EXCEPT !.reasoning = strip(AfterFirstColon(line_stripped))])
             ELSE ParseLines(lines, i + 1, acc)

\* Mutant: the range test lets a decision one past the last take through.
parse_structured_responsePastEnd(response, num_takes) ==
    LET lines == SplitOn(strip(response), "\n", 1, "")
        got == ParseLines(lines, 1, [has |-> FALSE, decision |-> 0, reasoning |-> ""])
    IN  IF ~got.has \/ ~(0 <= got.decision /\ got.decision <= num_takes)
        THEN [decision |-> num_takes - 1, reasoning |-> "Fallback: defaulting to last take"]
        ELSE [decision |-> got.decision, reasoning |-> got.reasoning]

\* _parse_structured_response
parse_structured_response(response, num_takes) ==
    LET lines == SplitOn(strip(response), "\n", 1, "")
        got == ParseLines(lines, 1, [has |-> FALSE, decision |-> 0, reasoning |-> ""])
    IN  IF ~got.has \/ ~(0 <= got.decision /\ got.decision < num_takes)
        THEN [decision |-> num_takes - 1, reasoning |-> "Fallback: defaulting to last take"]
        ELSE [decision |-> got.decision, reasoning |-> got.reasoning]

\* The reversed scans of _validate_decision and _fallback_selection: the
\* highest index (0-based) at which flags is TRUE, None when there is none.
LastIndexWhere(flags) ==
    IF \E i \in 1..Len(flags) : flags[i]
    THEN (CHOOSE i \in 1..Len(flags) :
             /\ flags[i]
             /\ \A j \in (i + 1)..Len(flags) : ~flags[j]) - 1
    ELSE None

\* Mutant: rule 1 without the comparison of the hesitation counts.
Rule1OverridesAnyHesitations(decision, metrics_list) ==
    LET selected == metrics_list[decision + 1]
        last == metrics_list[Len(metrics_list)]
    IN  /\ decision # Len(metrics_list) - 1
        /\ last.has_completion_marker
        /\ ~selected.has_completion_marker

\* Rule 1 of _validate_decision: whether the last take replaces the chosen one.
Rule1Overrides(decision, metrics_list) ==
    LET selected == metrics_list[decision + 1]
        last == metrics_list[Len(metrics_list)]
    IN  /\ decision # Len(metrics_list) - 1
        /\ last.has_completion_marker
        /\ ~selected.has_completion_marker
        /\ last.hesitation_count <= selected.hesitation_count

\* _validate_decision without rule 2.
validate_decisionRule1Only(decision, metrics_list) ==
    IF Len(metrics_list) = 0 THEN [decision |-> decision, override_reason |-> ""]
    ELSE IF Rule1Overrides(decision, metrics_list)
         THEN [decision |-> Len(metrics_list) - 1,
               override_reason |-> "last take is complete with fewer/equal hesitations"]
         ELSE [decision |-> decision, override_reason |-> ""]

\* _validate_decision: the validated decision and the override reason ("" for
\* Python's None).  Rule 2 reads `selected`, the take the judge chose.
validate_decision(decision, metrics_list) ==
    IF Len(metrics_list) = 0 THEN [decision |-> decision, override_reason |-> ""]
    ELSE LET selected == metrics_list[decision + 1]
             last_index == Len(metrics_list) - 1
             NotIncomplete ==
                 [i \in 1..Len(metrics_list) |-> ~metrics_list[i].incomplete_sentence]
         IN  IF Rule1Overrides(decision, metrics_list)
             THEN [decision |-> last_index,
                   override_reason |-> "last take is complete with fewer/equal hesitations"]
             ELSE IF selected.incomplete_sentence
                       /\ LastIndexWhere(NotIncomplete) # None
             THEN [decision |-> LastIndexWhere(NotIncomplete),
                   override_reason |-> "avoiding incomplete take"]
             ELSE [decision |-> decision, override_reason |-> ""]

\* Mutant: the scan runs forward and returns the first complete take.
fallback_selectionFirst(metrics_list) ==
    LET Complete(m) == m.has_completion_marker /\ ~m.incomplete_sentence
    IN  IF \E i \in 1..Len(metrics_list) : Complete(metrics_list[i])
        THEN (CHOOSE i \in 1..Len(metrics_list) :
                 /\ Complete(metrics_list[i])
                 /\ \A j \in 1..(i - 1) : ~Complete(metrics_list[j])) - 1
        ELSE Len(metrics_list) - 1

\* Mutant: the default is one past the last take.
fallback_selectionPastEnd(metrics_list) ==
    LET Complete ==
            [i \in 1..Len(metrics_list) |->
                metrics_list[i].has_completion_marker /\ ~metrics_list[i].incomplete_sentence]
    IN  IF LastIndexWhere(Complete) # None
        THEN LastIndexWhere(Complete)
        ELSE Len(metrics_list)

\* _fallback_selection
fallback_selection(metrics_list) ==
    LET Complete ==
            [i \in 1..Len(metrics_list) |->
                metrics_list[i].has_completion_marker /\ ~metrics_list[i].incomplete_sentence]
    IN  IF LastIndexWhere(Complete) # None
        THEN LastIndexWhere(Complete)
        ELSE Len(metrics_list) - 1

\* Stage 1 of select_best_take_llm: the metrics of the takes of a group.
RECURSIVE MetricsFrom(_, _, _)
MetricsFrom(group, i, metrics_list) ==
    IF i > Len(group.segments) THEN metrics_list
    ELSE MetricsFrom(group, i + 1,
                     Append(metrics_list,
                            compute_take_metrics(group.segments[i].segment, i - 1)))

MetricsList(group) == MetricsFrom(group, 1, << >>)

\* Stage 3 of select_best_take_llm, from the decision the judges left (None
\* when no judge gave one).
Stage3(decision, reasoning, metrics_list) ==
    IF decision = None
    THEN [decision |-> fallback_selection(metrics_list),
          reasoning |-> "rule-based: selected last complete take"]
    ELSE LET v == validate_decision(decision, metrics_list)
         IN  IF v.override_reason # ""
             THEN [decision |-> v.decision, reasoning |-> "override: " \o v.override_reason]
             ELSE [decision |-> decision, reasoning |-> reasoning]

(***************************************************************************)
(* Program constants, in ticks of 0.05 s (percent for the similarities).    *)
(***************************************************************************)
BlockGap == 60              \* gap > 3.0 s ends a recording block
RestartWindow == 200        \* pass 2: within 10.0 s
RestartLookahead == 3       \* pass 2: range(i + 1, min(i + 4, len))
RestartPrefixWords == 4     \* pass 2: min_words=4
RestartPrefixLen == 10      \* pass 2: both prefixes >= 10 characters
RestartSimilarity == 70     \* pass 2: prefix similarity >= 0.7
RetakeWindow == 1200        \* pass 3: within 60.0 s
BlockSimilarity == 60       \* pass 1: fuzz.ratio >= 0.6
BlockPartialSimilarity == 75 \* pass 1: fuzz.partial_ratio >= 0.75
FingerprintLen == 100       \* pass 1: first_text[:100]
MergeTolerance == 1         \* merge: next.start <= current.end + 0.05
DefaultSilenceThreshold == 30   \* Config.silence_threshold = 1.5
DefaultRetakeSimilarity == 80   \* Config.retake_similarity = 0.8
MinSegmentDuration == 10        \* Config.min_segment_duration = 0.5
FullConfidence == 100           \* confidence=1.0

(***************************************************************************)
(* Retake grouping (detect_retakes).  Indices are 1-based here: index i of  *)
(* the model is index i-1 of the source.                                    *)
(***************************************************************************)
\* _get_segment_prefix
get_segment_prefix(text, min_words) ==
    LET words == split(lower(text))
    IN  IF Len(words) >= min_words THEN join(SubSeq(words, 1, min_words)) ELSE lower(text)

\* A pause of 3.0 s or more ends the block (the source asks for more than 3.0 s).
EndsBlockAtGap(segments, i) == segments[i + 1].start - segments[i].end >= BlockGap

\* _find_recording_blocks: gap > 3.0 after segment i
EndsBlock(segments, i) == segments[i + 1].start - segments[i].end > BlockGap

\* _find_recording_blocks: the loop over i, with the blocks found so far.
RECURSIVE BlocksFrom(_, _, _, _)
BlocksFrom(segments, i, block_start, blocks) ==
    IF i > Len(segments) - 1
    THEN Append(blocks, << block_start, Len(segments) >>)
    ELSE IF EndsBlock(segments, i)
         THEN BlocksFrom(segments, i + 1, i + 1, Append(blocks, << block_start, i >>))
         ELSE BlocksFrom(segments, i + 1, block_start, blocks)

find_recording_blocks(segments) ==
    IF Len(segments) = 0 THEN << >> ELSE BlocksFrom(segments, 1, 1, << >>)

\* _get_block_text
RECURSIVE get_block_text(_, _, _)
get_block_text(segments, start_idx, end_idx) ==
    IF start_idx > end_idx THEN ""
    ELSE IF start_idx = end_idx THEN segments[start_idx].text
    ELSE segments[start_idx].text \o " " \o get_block_text(segments, start_idx + 1, end_idx)

\* The fingerprint of a block: its first segment's text, lowercased, with the
\* second segment's when the block has one, cut to 100 characters.
Fingerprint(segments, block) ==
    LET first_text == lower(segments[block[1]].text)
        both == IF block[2] > block[1]
                THEN first_text \o " " \o lower(segments[block[1] + 1].text)
                ELSE first_text
    IN  SubSeq(both, 1, Min(Len(both), FingerprintLen))

\* similarity >= 0.6 or partial_sim >= 0.75
FingerprintsSimilar(fp_i, fp_j) ==
    \/ AtLeast(fuzz_ratio(fp_i, fp_j), BlockSimilarity)
    \/ AtLeast(fuzz_partial_ratio(fp_i, fp_j), BlockPartialSimilarity)

\* The blocks j > i, used or not, whose fingerprint is similar to block i's.
BlockMatchesUsedToo(segments, blocks, i, used_blocks) ==
    { j \in (i + 1)..Len(blocks) :
        FingerprintsSimilar(Fingerprint(segments, blocks[i]),
                            Fingerprint(segments, blocks[j])) }

\* The blocks j > i, not yet used, whose fingerprint is similar to block i's.
BlockMatches(segments, blocks, i, used_blocks) ==
    { j \in (i + 1)..Len(blocks) :
        /\ j \notin used_blocks
        /\ FingerprintsSimilar(Fingerprint(segments, blocks[i]),
                               Fingerprint(segments, blocks[j])) }

\* An increasing sequence of the elements of a set of numbers.
RECURSIVE SortedSeq(_)
SortedSeq(S) ==
    IF S = {} THEN << >>
    ELSE LET m == CHOOSE x \in S : \A y \in S : x <= y
         IN  << m >> \o SortedSeq(S \ {m})

\* _find_retake_blocks: the loop over the blocks.
RECURSIVE RetakeBlocksFrom(_, _, _, _, _)
RetakeBlocksFrom(segments, blocks, i, used_blocks, retake_groups) ==
    IF i > Len(blocks) THEN retake_groups
    ELSE IF i \in used_blocks
         THEN RetakeBlocksFrom(segments, blocks, i + 1, used_blocks, retake_groups)
         ELSE LET matches == BlockMatches(segments, blocks, i, used_blocks)
                  group == << blocks[i] >> \o [ k \in 1..Cardinality(matches) |->
                                                 blocks[SortedSeq(matches)[k]] ]
              IN  RetakeBlocksFrom(segments, blocks, i + 1,
                      used_blocks \cup {i} \cup matches,
                      IF Len(group) > 1 THEN Append(retake_groups, group)
                                        ELSE retake_groups)

find_retake_blocks(segments) ==
    LET blocks == find_recording_blocks(segments)
    IN  IF Len(blocks) < 2 THEN << >>
        ELSE RetakeBlocksFrom(segments, blocks, 1, {}, << >>)

\* An AnalyzedSegment that is a retake candidate of group group_id.  `first`
\* and `last` record the original segments it stands for (a history field:
\* the source keeps the segment only).
Candidate(segment, group_id, first, last) ==
    [ segment |-> segment, action |-> "retake_candidate", reason |-> "",
      retake_group_id |-> group_id, first |-> first, last |-> last ]

\* Strategy 1: the virtual segment of a block.
VirtualSegment(segments, block) ==
    [ start |-> segments[block[1]].start,
      end |-> segments[block[2]].end,
      text |-> get_block_text(segments, block[1], block[2]),
      confidence |-> FullConfidence ]

\* A group numbered from 1.
RetakeGroupOneBased(id, members) ==
    [ id |-> id + 1, segments |-> members, best_index |-> None ]

RetakeGroup(id, members) == [ id |-> id, segments |-> members, best_index |-> None ]

\* A group is emitted whatever its size.
GroupKeptAlways(members) == Len(members) > 0

\* Strategies 1 and 3: if len(group.segments) > 1
GroupKept(members) == Len(members) > 1

\* Strategy 1 of detect_retakes: st holds retake_groups, used_indices, group_id.
RECURSIVE Strategy1(_, _, _, _)
Strategy1(segments, retake_blocks, k, st) ==
    IF k > Len(retake_blocks) THEN st
    ELSE LET block_group == retake_blocks[k]
             members == [ b \in 1..Len(block_group) |->
                            Candidate(VirtualSegment(segments, block_group[b]), st.group_id,
                                      block_group[b][1], block_group[b][2]) ]
             indices == UNION { block_group[b][1]..block_group[b][2] :
                                  b \in 1..Len(block_group) }
             used == st.used_indices \cup indices
         IN  Strategy1(segments, retake_blocks, k + 1,
                 IF GroupKept(members)
                 THEN [ retake_groups |->
                            Append(st.retake_groups, RetakeGroup(st.group_id, members)),
                        used_indices |-> used,
                        group_id |-> st.group_id + 1 ]
                 ELSE [ st EXCEPT !.used_indices = used ])

\* Strategy 2 without the test on the length of the prefixes.
IsRestartAnyLength(seg1, seg2) ==
    LET prefix1 == get_segment_prefix(seg1.text, RestartPrefixWords)
        prefix2 == get_segment_prefix(seg2.text, RestartPrefixWords)
    IN  AtLeast(fuzz_ratio(prefix1, prefix2), RestartSimilarity)

\* Strategy 2: whether seg1 and seg2 start alike.
IsRestart(seg1, seg2) ==
    LET prefix1 == get_segment_prefix(seg1.text, RestartPrefixWords)
        prefix2 == get_segment_prefix(seg2.text, RestartPrefixWords)
    IN  /\ Len(prefix1) >= RestartPrefixLen
        /\ Len(prefix2) >= RestartPrefixLen
        /\ AtLeast(fuzz_ratio(prefix1, prefix2), RestartSimilarity)

\* Strategy 2, the inner loop over j: the first j that restarts i, 0 if none.
RECURSIVE FindRestart(_, _, _, _)
FindRestart(segments, i, j, used_indices) ==
    IF j > Min(i + RestartLookahead, Len(segments)) THEN 0
    ELSE IF j \in used_indices THEN FindRestart(segments, i, j + 1, used_indices)
    ELSE IF segments[j].start - segments[i].end > RestartWindow THEN 0
    ELSE IF IsRestart(segments[i], segments[j]) THEN j
    ELSE FindRestart(segments, i, j + 1, used_indices)

RECURSIVE Strategy2(_, _, _)
Strategy2(segments, i, st) ==
    IF i > Len(segments) THEN st
    ELSE IF i \in st.used_indices THEN Strategy2(segments, i + 1, st)
    ELSE LET j == FindRestart(segments, i, i + 1, st.used_indices)
         IN  IF j = 0 THEN Strategy2(segments, i + 1, st)
             ELSE Strategy2(segments, i + 1,
                      [ retake_groups |->
                            Append(st.retake_groups,
                                   RetakeGroup(st.group_id,
                                       << Candidate(segments[i], st.group_id, i, i),
                                          Candidate(segments[j], st.group_id, j, j) >>)),
                        used_indices |-> st.used_indices \cup {i, j},
                        group_id |-> st.group_id + 1 ])

\* Strategy 3 asking for a similarity above retake_similarity.
IsRetakeAbove(seg1, seg2, retake_similarity) ==
    LET r == fuzz_ratio(lower(seg1.text), lower(seg2.text))
    IN  r.num * 100 > retake_similarity * r.den

\* Strategy 3: similarity >= self.config.retake_similarity
IsRetake(seg1, seg2, retake_similarity) ==
    AtLeast(fuzz_ratio(lower(seg1.text), lower(seg2.text)), retake_similarity)

\* Strategy 3 looking 120 s ahead.
PastRetakeWindowTwice(seg1, seg2) == seg2.start - seg1.end > 2 * RetakeWindow

\* Strategy 3: seg2.start - seg1.end > 60.0
PastRetakeWindow(seg1, seg2) == seg2.start - seg1.end > RetakeWindow

\* Strategy 3, the inner loop over j: the segments similar to segment i.
RECURSIVE FindSimilar(_, _, _, _, _, _)
FindSimilar(segments, i, j, used_indices, retake_similarity, found) ==
    IF j > Len(segments) THEN found
    ELSE IF j \in used_indices
         THEN FindSimilar(segments, i, j + 1, used_indices, retake_similarity, found)
    ELSE IF PastRetakeWindow(segments[i], segments[j]) THEN found
    ELSE IF IsRetake(segments[i], segments[j], retake_similarity)
         THEN FindSimilar(segments, i, j + 1, used_indices, retake_similarity,
                          Append(found, j))
    ELSE FindSimilar(segments, i, j + 1, used_indices, retake_similarity, found)

RECURSIVE Strategy3(_, _, _, _)
Strategy3(segments, i, retake_similarity, st) ==
    IF i > Len(segments) THEN st
    ELSE IF i \in st.used_indices THEN Strategy3(segments, i + 1, retake_similarity, st)
    ELSE LET found == FindSimilar(segments, i, i + 1, st.used_indices \cup {i},
                                  retake_similarity, << >>)
             members == << Candidate(segments[i], st.group_id, i, i) >> \o
                        [ k \in 1..Len(found) |->
                            Candidate(segments[found[k]], st.group_id, found[k], found[k]) ]
             used == st.used_indices \cup {i} \cup { found[k] : k \in 1..Len(found) }
         IN  Strategy3(segments, i + 1, retake_similarity,
                 IF GroupKept(members)
                 THEN [ retake_groups |->
                            Append(st.retake_groups, RetakeGroup(st.group_id, members)),
                        used_indices |-> used,
                        group_id |-> st.group_id + 1 ]
                 ELSE [ st EXCEPT !.used_indices = used ])

\* detect_retakes whose second strategy starts from an empty used_indices.
DetectStateForgettingClaims(segments, retake_similarity) ==
    LET st0 == [ retake_groups |-> << >>, used_indices |-> {}, group_id |-> 0 ]
        retake_blocks == find_retake_blocks(segments)
        st1 == Strategy1(segments, retake_blocks, 1, st0)
        st2 == Strategy2(segments, 1, [ st1 EXCEPT !.used_indices = {} ])
        st3 == Strategy3(segments, 1, retake_similarity, st2)
    IN  [ retake_blocks |-> retake_blocks, st1 |-> st1, st2 |-> st2, st3 |-> st3 ]

\* detect_retakes, with what it leaves after each strategy: retake_blocks is
\* the result of _find_retake_blocks, st1, st2 and st3 hold retake_groups,
\* used_indices and group_id after strategies 1, 2 and 3.
DetectState(segments, retake_similarity) ==
    LET st0 == [ retake_groups |-> << >>, used_indices |-> {}, group_id |-> 0 ]
        retake_blocks == find_retake_blocks(segments)
        st1 == Strategy1(segments, retake_blocks, 1, st0)
        st2 == Strategy2(segments, 1, st1)
        st3 == Strategy3(segments, 1, retake_similarity, st2)
    IN  [ retake_blocks |-> retake_blocks, st1 |-> st1, st2 |-> st2, st3 |-> st3 ]

detect_retakes(segments, retake_similarity) ==
    DetectState(segments, retake_similarity).st3.retake_groups

(***************************************************************************)
(* Silence detection and range reconciliation.                              *)
(***************************************************************************)
TimeRange(start, end) == [ start |-> start, end |-> end ]

\* detect_silences reporting a gap equal to the threshold too.
detect_silencesAtThreshold(segments, video_duration, silence_threshold) ==
    LET n == Len(segments)
        leading == IF n > 0 /\ segments[1].start >= silence_threshold
                   THEN << TimeRange(0, segments[1].start) >> ELSE << >>
        Gap(i) == IF segments[i + 1].start - segments[i].end >= silence_threshold
                  THEN << TimeRange(segments[i].end, segments[i + 1].start) >> ELSE << >>
        between[i \in 0..(n - 1)] == IF i <= 0 THEN << >> ELSE between[i - 1] \o Gap(i)
        trailing == IF n > 0 /\ video_duration - segments[n].end >= silence_threshold
                    THEN << TimeRange(segments[n].end, video_duration) >> ELSE << >>
    IN  IF n = 0 THEN << >> ELSE leading \o between[n - 1] \o trailing

detect_silences(segments, video_duration, silence_threshold) ==
    LET n == Len(segments)
        leading == IF n > 0 /\ segments[1].start > silence_threshold
                   THEN << TimeRange(0, segments[1].start) >> ELSE << >>
        Gap(i) == IF segments[i + 1].start - segments[i].end > silence_threshold
                  THEN << TimeRange(segments[i].end, segments[i + 1].start) >> ELSE << >>
        between[i \in 0..(n - 1)] == IF i <= 0 THEN << >> ELSE between[i - 1] \o Gap(i)
        trailing == IF n > 0 /\ video_duration - segments[n].end > silence_threshold
                    THEN << TimeRange(segments[n].end, video_duration) >> ELSE << >>
    IN  IF n = 0 THEN << >> ELSE leading \o between[n - 1] \o trailing

\* The remove ranges of one group: every member but the one at best_index.
\* Mutant: the index of the take compared one-based with best_index.
RECURSIVE GroupRemoveRangesOneBased(_, _)
GroupRemoveRangesOneBased(group, i) ==
    IF i > Len(group.segments) THEN << >>
    ELSE (IF i # group.best_index
          THEN << TimeRange(group.segments[i].segment.start, group.segments[i].segment.end) >>
          ELSE << >>) \o GroupRemoveRangesOneBased(group, i + 1)

RECURSIVE GroupRemoveRanges(_, _)
GroupRemoveRanges(group, i) ==
    IF i > Len(group.segments) THEN << >>
    ELSE (IF i - 1 # group.best_index
          THEN << TimeRange(group.segments[i].segment.start, group.segments[i].segment.end) >>
          ELSE << >>) \o GroupRemoveRanges(group, i + 1)

RECURSIVE RangesToRemove(_, _)
RangesToRemove(groups, k) ==
    IF k > Len(groups) THEN << >>
    ELSE GroupRemoveRanges(groups[k], 1) \o RangesToRemove(groups, k + 1)

\* seg.start >= remove_range.start and seg.end <= remove_range.end, for some
\* remove range.
ShouldRemove(seg, ranges_to_remove) ==
    \E k \in 1..Len(ranges_to_remove) :
        seg.start >= ranges_to_remove[k].start /\ seg.end <= ranges_to_remove[k].end

\* A buffered range that always adds the merge tolerance to its end.
BufferedRangePadded(seg, video_duration, start_buffer, end_buffer) ==
    TimeRange(Max(0, seg.start - start_buffer),
              Min(video_duration, seg.end + end_buffer + MergeTolerance))

\* The buffered range of a kept segment.
BufferedRange(seg, video_duration, start_buffer, end_buffer) ==
    TimeRange(Max(0, seg.start - start_buffer), Min(video_duration, seg.end + end_buffer))

\* The loop over the segments: the (range, segment) pairs kept, in order.
RECURSIVE KeepPairs(_, _, _, _, _, _)
KeepPairs(segments, i, ranges_to_remove, video_duration, start_buffer, end_buffer) ==
    IF i > Len(segments) THEN << >>
    ELSE (IF ShouldRemove(segments[i], ranges_to_remove) THEN << >>
          ELSE << [ range |-> BufferedRange(segments[i], video_duration,
                                            start_buffer, end_buffer),
                    seg |-> segments[i] ] >>)
         \o KeepPairs(segments, i + 1, ranges_to_remove, video_duration,
                      start_buffer, end_buffer)

\* sorted(zip(ranges, segments), key=lambda x: x[0].start): a stable sort.
RECURSIVE InsertSorted(_, _)
InsertSorted(sorted, p) ==
    IF Len(sorted) = 0 THEN << p >>
    ELSE IF sorted[Len(sorted)].range.start <= p.range.start THEN Append(sorted, p)
    ELSE Append(InsertSorted(SubSeq(sorted, 1, Len(sorted) - 1), p), sorted[Len(sorted)])

RECURSIVE SortPairs(_, _, _)
SortPairs(pairs, i, sorted) ==
    IF i > Len(pairs) THEN sorted ELSE SortPairs(pairs, i + 1, InsertSorted(sorted, pairs[i]))

\* Mutant: only a range that ends inside the current one is merged into it.
OverlapsContained(current_range, next_range) ==
    next_range.end <= current_range.end

\* Whether the next range is merged into the current one.
Overlaps(current_range, next_range) ==
    next_range.start <= current_range.end + MergeTolerance

MergedRange(current_range, next_range) ==
    TimeRange(current_range.start, Max(current_range.end, next_range.end))

MergedSegment(current_seg, next_seg) ==
    [ start |-> current_seg.start,
      end |-> Max(current_seg.end, next_seg.end),
      text |-> current_seg.text \o " " \o next_seg.text,
      confidence |-> Min(current_seg.confidence, next_seg.confidence) ]

\* The loop of _merge_overlapping_ranges over paired[1:].
RECURSIVE MergeFrom(_, _, _, _)
MergeFrom(paired, i, current, merged) ==
    IF i > Len(paired) THEN Append(merged, current)
    ELSE IF Overlaps(current.range, paired[i].range)
         THEN MergeFrom(paired, i + 1,
                        [ range |-> MergedRange(current.range, paired[i].range),
                          seg |-> MergedSegment(current.seg, paired[i].seg) ],
                        merged)
         ELSE MergeFrom(paired, i + 1, paired[i], Append(merged, current))

\* _merge_overlapping_ranges, on the (range, segment) pairs.
merge_overlapping_ranges(pairs) ==
    IF Len(pairs) = 0 THEN << >>
    ELSE LET paired == SortPairs(pairs, 1, << >>)
         IN  MergeFrom(paired, 2, paired[1], << >>)

(***************************************************************************)
(* The inputs of the model.                                                 *)
(***************************************************************************)
MaxSegs == 3                \* the longest transcript given to analyze
MaxTakes == 3               \* the most takes in the groups given to select_best_takes
MaxDecision == 4            \* the largest number a judge answers with
TrailingSlack == 40         \* media that outlasts the last segment by 2.0 s

\* Pauses between consecutive segments: none, 3.5 s.
Gaps == {0, 70}

\* The transcriber keeps a segment only if it lasts min_segment_duration.
Durations == {MinSegmentDuration}

Texts == {"na ez az jo.", "ok!"}

\* The transcripts of n segments, in time order, one after the other.
RECURSIVE Transcripts(_)
Transcripts(n) ==
    IF n = 0 THEN { << >> }
    ELSE { LET s == (IF Len(t) = 0 THEN 0 ELSE t[Len(t)].end) + g
           IN  Append(t, [ start |-> s, end |-> s + d, text |-> x,
                           confidence |-> FullConfidence ]) :
             t \in Transcripts(n - 1), g \in Gaps, d \in Durations, x \in Texts }

SegmentLists == UNION { Transcripts(n) : n \in 0..MaxSegs }

LastEnd(segs) == IF Len(segs) = 0 THEN 0 ELSE segs[Len(segs)].end

\* The media durations tried with a transcript: none at all, the end of the
\* last segment, and some time after it.
VideoDurations(segs) == {0, LastEnd(segs), LastEnd(segs) + TrailingSlack}

\* Takes that differ in their metrics: complete; complete after a hesitation;
\* incomplete; neither.
TakeTexts == {"jo.", "hát jo.", "jo és", "jo"}

\* The lists of groups that hold n takes in all, one take after the other.
RECURSIVE GroupLists(_)
GroupLists(n) ==
    IF n = 0 THEN { << >> }
    ELSE LET Take(x) == [ start |-> (n - 1) * MinSegmentDuration,
                          end |-> n * MinSegmentDuration,
                          text |-> x, confidence |-> FullConfidence ]
             Opened(l, x) ==
                 Append(l, RetakeGroup(Len(l), << Candidate(Take(x), Len(l), n, n) >>))
             Extended(l, x) ==
                 [ l EXCEPT ![Len(l)].segments =
                       Append(@, Candidate(Take(x), Len(l) - 1, n, n)) ]
         IN  { Opened(l, x) : l \in GroupLists(n - 1), x \in TakeTexts }
                 \cup { Extended(l, x) :
                          l \in GroupLists(n - 1) \ { << >> }, x \in TakeTexts }

RetakeGroupLists == UNION { GroupLists(n) : n \in 0..MaxTakes }

\* Config as config.py defines it, and as analyze and the GUI read it, with
\* segment_start_buffer and segment_end_buffer: 0.1 s and 0.15 s, 0.25 s each.
BaseConfig ==
    [ silence_threshold |-> DefaultSilenceThreshold,
      retake_similarity |-> DefaultRetakeSimilarity ]

BufferedConfig(start_buffer, end_buffer) ==
    [ silence_threshold |-> DefaultSilenceThreshold,
      retake_similarity |-> DefaultRetakeSimilarity,
      segment_start_buffer |-> start_buffer,
      segment_end_buffer |-> end_buffer ]

Configs == { BaseConfig, BufferedConfig(2, 3), BufferedConfig(5, 5) }

\* What a judge call can do: raise, or return a response text.
Raise == "<raise>"

Responses ==
    { "REASONING: ok\nDECISION: " \o Char(Digits, d + 1) : d \in 0..MaxDecision }
        \cup { "DECISION: last", "" }

JudgeOutcomes == {Raise} \cup Responses

(***************************************************************************)
(* RecordingController (gui/recorder/recording_controller.py): the          *)
(* controller's state and the QMediaRecorder it drives.  A QMediaRecorder   *)
(* that was told to stop keeps its state until it reports StoppedState      *)
(* through recorderStateChanged; record() and pause() calls made in between *)
(* do not take the stop back.                                               *)
(***************************************************************************)
\* RecordingController.__init__: IDLE, the recorder stopped, nothing emitted.
\* last is the method or slot that ran last, emitted the recording_started,
\* recording_stopped and recording_error signals it emitted; starts and
\* reports count the recordings started and the stops the recorder reported.
NewController ==
    [ state |-> "IDLE", recorder_state |-> "StoppedState", stop_pending |-> FALSE,
      last |-> "__init__", emitted |-> << >>, starts |-> 0, reports |-> 0 ]

\* _on_recorder_state_changed: whether a reported StoppedState is finalized.
FinalizesIn(state) == state = "RECORDING"

\* _finalize_recording: IDLE, and recording_stopped if the output file exists,
\* recording_error otherwise.
finalize_recording(c, file_exists) ==
    [ c EXCEPT !.state = "IDLE",
               !.emitted = IF file_exists THEN << "recording_stopped" >>
                                          ELSE << "recording_error" >> ]

(***************************************************************************)
(* FFmpegRecorder (gui/recorder/ffmpeg_recorder.py): the recorder's state,  *)
(* its ffmpeg process and its finalize thread.                              *)
(***************************************************************************)
\* FFmpegRecorder.__init__: IDLE, no process, no finalize thread.  threads counts
\* the finalize threads inside worker.run, queued holds the _finalize_done
\* signals waiting for the recorder's thread; last is the method or slot that
\* ran last, returned what it returned, emitted the signals it emitted; remux
\* is whether _final_output_path differs from _output_path;
\* launched and stops count the processes started and the stop_recording calls
\* made in RECORDING, outcomes lists what each _on_finalize_done run emitted.
NewRecorder ==
    [ state |-> "IDLE", process |-> FALSE, remux |-> FALSE, threads |-> 0,
      queued |-> << >>, last |-> "__init__", returned |-> "None", emitted |-> << >>,
      launched |-> 0, stops |-> 0, outcomes |-> << >> ]

\* The state stop_recording would leave, were it not to move to STOPPING.
StateWhileFinalizingRecording == "RECORDING"

\* stop_recording: the state while the finalize thread runs.
StateWhileFinalizing == "STOPPING"

(***************************************************************************)
(* _adjust_tokens_for_cuts (main.py): the tokens of the full video moved    *)
(* onto the timeline of the cut video.                                      *)
(***************************************************************************)
SegmentGap == 4                 \* Cutter.SEGMENT_GAP = 0.2

Token(text, start, end) == [ text |-> text, start |-> start, end |-> end ]

\* sorted(items, key=lambda x: x.start): a stable sort by start.
RECURSIVE InsertByStart(_, _)
InsertByStart(sorted, x) ==
    IF sorted = << >> THEN << x >>
    ELSE IF sorted[Len(sorted)].start <= x.start THEN Append(sorted, x)
    ELSE Append(InsertByStart(SubSeq(sorted, 1, Len(sorted) - 1), x), sorted[Len(sorted)])

RECURSIVE SortedByStart(_)
SortedByStart(items) ==
    IF items = << >> THEN << >>
    ELSE InsertByStart(SortedByStart(SubSeq(items, 1, Len(items) - 1)), items[Len(items)])

\* The loop that fills offsets: each range's offset is the running total, which
\* grows by the range's duration and, except after the last range, by the gap.
RECURSIVE OffsetsFrom(_, _, _, _, _)
OffsetsFrom(sorted_ranges, i, cumulative, offsets, segment_gap) ==
    IF i > Len(sorted_ranges) THEN offsets
    ELSE LET range_ == sorted_ranges[i]
             after == cumulative + (range_.end - range_.start)
         IN  OffsetsFrom(sorted_ranges, i + 1,
                         IF i < Len(sorted_ranges) THEN after + segment_gap ELSE after,
                         Append(offsets, cumulative), segment_gap)

\* The while loop: skip the ranges that end before the token starts.
RECURSIVE SkipRanges(_, _, _)
SkipRanges(sorted_ranges, range_idx, token) ==
    IF range_idx <= Len(sorted_ranges) /\ sorted_ranges[range_idx].end <= token.start
    THEN SkipRanges(sorted_ranges, range_idx + 1, token)
    ELSE range_idx

\* The adjusted token, were its end not clamped to the range.
AdjustedTokenUnclamped(token, range_, offset) ==
    Token(token.text, offset + (token.start - range_.start),
          offset + (token.end - range_.start))

\* The adjusted token: its times moved by the range's offset, its end clamped
\* to the range's contribution.
AdjustedToken(token, range_, offset) ==
    Token(token.text, offset + (token.start - range_.start),
          Min(offset + (token.end - range_.start), offset + (range_.end - range_.start)))

\* The loop over the sorted tokens.
RECURSIVE AdjustFrom(_, _, _, _, _, _)
AdjustFrom(sorted_tokens, sorted_ranges, offsets, t, range_idx, adjusted_tokens) ==
    IF t > Len(sorted_tokens) THEN adjusted_tokens
    ELSE LET token == sorted_tokens[t]
             idx == SkipRanges(sorted_ranges, range_idx, token)
             within == /\ idx <= Len(sorted_ranges)
                       /\ sorted_ranges[idx].start <= token.start
                       /\ token.start < sorted_ranges[idx].end
         IN  AdjustFrom(sorted_tokens, sorted_ranges, offsets, t + 1, idx,
                        IF within
                        THEN Append(adjusted_tokens,
                                    AdjustedToken(token, sorted_ranges[idx], offsets[idx]))
                        ELSE adjusted_tokens)

adjust_tokens_for_cuts(token_list, ranges, segment_gap) ==
    IF token_list = << >> \/ ranges = << >> THEN << >>
    ELSE LET sorted_tokens == SortedByStart(token_list)
             sorted_ranges == SortedByStart(ranges)
             offsets == OffsetsFrom(sorted_ranges, 1, 0, << >>, segment_gap)
         IN  AdjustFrom(sorted_tokens, sorted_ranges, offsets, 1, 1, << >>)

(***************************************************************************)
(* The state: the Analyzer (its clients and configuration), the arguments   *)
(* and locals of the running analyze / select_best_takes call, and its      *)
(* results.                                                                 *)
(***************************************************************************)
VARIABLES
    gemini_client,      \* whether Analyzer._gemini_client is set
    openai_client,      \* whether Analyzer._openai_client is set
    config,             \* the Config the Analyzer was built with
    pc,                 \* "idle", "select" (in select_best_takes), "done", "raised"
    entry,              \* the method called: "analyze" or "select_best_takes"
    segments,           \* analyze: the segments argument
    video_duration,     \* analyze: the video_duration argument
    silences,           \* analyze: the detected silences
    retake_groups,      \* the retake groups
    group_index,        \* select_best_takes: the group the loop is at (1-based)
    llm_stage,          \* select_best_take_llm: "start", "gemini_done", "openai_done"
    decision,           \* select_best_take_llm: decision (None: no decision)
    reasoning,          \* select_best_take_llm: reasoning
    judge_calls,        \* history: the judge calls for the current group, in order
    selections,         \* history: per group, what select_best_take_llm returned
    ranges_to_remove,   \* analyze: the remove ranges
    removed,            \* history: the indices of the segments analyze dropped
    keep_ranges,        \* analyze: the returned ranges
    kept_segments,      \* analyze: the returned segments
    args,               \* the arguments of a helper method called on its own
    blocks,             \* _find_recording_blocks: the returned blocks
    retake_blocks,      \* _find_retake_blocks: the returned clusters of blocks
    passes,             \* history: per retake group, the strategy that emitted it
    controller,         \* the RecordingController and its QMediaRecorder
    recorder,           \* the FFmpegRecorder, its process and its finalize thread
    tokens,             \* _adjust_tokens_for_cuts: the tokens argument
    adjusted_tokens     \* _adjust_tokens_for_cuts: the returned tokens

vars == << gemini_client, openai_client, config, pc, entry, segments, video_duration,
           silences, retake_groups, group_index, llm_stage, decision, reasoning,
           judge_calls, selections, ranges_to_remove, removed, keep_ranges,
           kept_segments, args, blocks, retake_blocks, passes, controller, recorder,
           tokens, adjusted_tokens >>

analyzerVars == << gemini_client, openai_client, config >>

resultVars == << ranges_to_remove, removed, keep_ranges, kept_segments >>

callVars == << args, blocks, retake_blocks, passes >>

guiVars == << controller, recorder, tokens, adjusted_tokens >>

\* Analyzer.__init__: Gemini if its key is set, else OpenAI if its key is set,
\* else no client.
Init ==
    /\ \E client \in {"gemini", "openai", "none"} :
          /\ gemini_client = (client = "gemini")
          /\ openai_client = (client = "openai")
    /\ config \in Configs
    /\ pc = "idle"
    /\ entry = "none"
    /\ segments = << >>
    /\ video_duration = 0
    /\ silences = << >>
    /\ retake_groups = << >>
    /\ group_index = 1
    /\ llm_stage = "start"
    /\ decision = None
    /\ reasoning = ""
    /\ judge_calls = << >>
    /\ selections = << >>
    /\ ranges_to_remove = << >>
    /\ removed = {}
    /\ keep_ranges = << >>
    /\ kept_segments = << >>
    /\ args = << >>
    /\ blocks = << >>
    /\ retake_blocks = << >>
    /\ passes = << >>
    /\ controller = NewController
    /\ recorder = NewRecorder
    /\ tokens = << >>
    /\ adjusted_tokens = << >>

\* analyze(segs, duration), up to the first judge call: detect_silences,
\* detect_retakes and the start of select_best_takes.
Analyze(segs, duration) ==
    /\ pc = "idle"
    /\ pc' = "select"
    /\ entry' = "analyze"
    /\ segments' = segs
    /\ video_duration' = duration
    /\ silences' = detect_silences(segs, duration, config.silence_threshold)
    /\ retake_groups' = detect_retakes(segs, config.retake_similarity)
    /\ group_index' = 1
    /\ UNCHANGED << guiVars, analyzerVars, callVars, llm_stage, decision, reasoning, judge_calls,
                    selections, resultVars >>

\* select_best_takes(groups), called on its own, up to the first judge call.
SelectBestTakes(groups) ==
    /\ pc = "idle"
    /\ pc' = "select"
    /\ entry' = "select_best_takes"
    /\ retake_groups' = groups
    /\ group_index' = 1
    /\ UNCHANGED << guiVars, analyzerVars, callVars, segments, video_duration, silences, llm_stage,
                    decision, reasoning, judge_calls, selections, resultVars >>

\* The group select_best_takes is at.
InSelect == pc = "select" /\ group_index <= Len(retake_groups)

Group == retake_groups[group_index]

NumTakes == Len(Group.segments)

\* Mutant: Gemini is called again for as long as there is no decision.
GeminiPendingUntilDecision == gemini_client /\ decision = None /\ llm_stage # "openai_done"

GeminiPending == gemini_client /\ llm_stage = "start"

OpenAIPending ==
    /\ ~GeminiPending
    /\ llm_stage \in {"start", "gemini_done"}
    /\ decision = None
    /\ openai_client

\* Mutant: a call that raises leaves the default decision, the last take.
AfterJudgeRaiseDefaults(outcome) ==
    IF outcome = Raise
    THEN [ decision |-> NumTakes - 1, reasoning |-> "Fallback: defaulting to last take" ]
    ELSE parse_structured_response(outcome, NumTakes)

\* The locals after a judge call inside its try block: the parsed response,
\* or what they were when the call raised.
AfterJudge(outcome) ==
    IF outcome = Raise
    THEN [ decision |-> decision, reasoning |-> reasoning ]
    ELSE parse_structured_response(outcome, NumTakes)

\* select_best_take_llm: the Gemini call.
QueryGemini(outcome) ==
    /\ InSelect
    /\ NumTakes # 1
    /\ GeminiPending
    /\ LET after == AfterJudge(outcome)
       IN  /\ decision' = after.decision
           /\ reasoning' = after.reasoning
    /\ llm_stage' = "gemini_done"
    /\ judge_calls' = Append(judge_calls, [ judge |-> "gemini", outcome |-> outcome ])
    /\ UNCHANGED << guiVars, analyzerVars, callVars, pc, entry, segments, video_duration, silences,
                    retake_groups, group_index, selections, resultVars >>

\* select_best_take_llm: the OpenAI call.
QueryOpenAI(outcome) ==
    /\ InSelect
    /\ NumTakes # 1
    /\ OpenAIPending
    /\ LET after == AfterJudge(outcome)
       IN  /\ decision' = after.decision
           /\ reasoning' = after.reasoning
    /\ llm_stage' = "openai_done"
    /\ judge_calls' = Append(judge_calls, [ judge |-> "openai", outcome |-> outcome ])
    /\ UNCHANGED << guiVars, analyzerVars, callVars, pc, entry, segments, video_duration, silences,
                    retake_groups, group_index, selections, resultVars >>

\* The loop of select_best_takes sets best_index and moves to the next group.
SetBest(best_index, reason) ==
    /\ retake_groups' = [ retake_groups EXCEPT ![group_index].best_index = best_index ]
    /\ selections' = Append(selections,
                            [ best_index |-> best_index, reasoning |-> reason,
                              decision |-> decision, judge_calls |-> judge_calls ])
    /\ group_index' = group_index + 1
    /\ llm_stage' = "start"
    /\ decision' = None
    /\ reasoning' = ""
    /\ judge_calls' = << >>
    /\ UNCHANGED << guiVars, analyzerVars, callVars, pc, entry, segments, video_duration, silences,
                    resultVars >>

\* select_best_take_llm, stage 3, and the assignment of best_index.
SelectBestTake ==
    /\ InSelect
    /\ NumTakes # 1
    /\ ~GeminiPending
    /\ ~OpenAIPending
    /\ LET r == Stage3(decision, reasoning, MetricsList(Group))
       IN  SetBest(r.decision, r.reasoning)

\* select_best_takes on a group of one segment.
SelectOnlyTake ==
    /\ InSelect
    /\ NumTakes = 1
    /\ SetBest(0, "")

\* select_best_takes, called on its own, returns the groups.
ReturnGroups ==
    /\ pc = "select"
    /\ entry = "select_best_takes"
    /\ group_index > Len(retake_groups)
    /\ pc' = "done"
    /\ UNCHANGED << guiVars, analyzerVars, callVars, entry, segments, video_duration, silences,
                    retake_groups, group_index, llm_stage, decision, reasoning,
                    judge_calls, selections, resultVars >>

\* Whether the Config has the two buffers analyze reads.
HasBuffers ==
    {"segment_start_buffer", "segment_end_buffer"} \subseteq DOMAIN config

\* The two lists analyze returns, from the groups with their best_index.
Reconciled(segs, groups, duration, start_buffer, end_buffer) ==
    merge_overlapping_ranges(
        KeepPairs(segs, 1, RangesToRemove(groups, 1), duration, start_buffer, end_buffer))

\* analyze, after select_best_takes: the remove ranges, the keep ranges, the
\* merge.  Reading a buffer the Config does not have raises AttributeError at
\* the first segment that is kept.
Reconcile ==
    /\ pc = "select"
    /\ entry = "analyze"
    /\ group_index > Len(retake_groups)
    /\ ranges_to_remove' = RangesToRemove(retake_groups, 1)
    /\ removed' = { i \in 1..Len(segments) :
                      ShouldRemove(segments[i], ranges_to_remove') }
    /\ IF HasBuffers \/ removed' = 1..Len(segments)
       THEN LET merged ==
                    IF HasBuffers
                    THEN Reconciled(segments, retake_groups, video_duration,
                                    config.segment_start_buffer,
                                    config.segment_end_buffer)
                    ELSE << >>
            IN  /\ keep_ranges' = [ i \in 1..Len(merged) |-> merged[i].range ]
                /\ kept_segments' = [ i \in 1..Len(merged) |-> merged[i].seg ]
                /\ pc' = "done"
       ELSE /\ pc' = "raised"
            /\ UNCHANGED << keep_ranges, kept_segments >>
    /\ UNCHANGED << guiVars, analyzerVars, callVars, entry, segments, video_duration, silences,
                    retake_groups, group_index, llm_stage, decision, reasoning,
                    judge_calls, selections >>

\* The keep ranges analyze returned, as segments: each with the text and the
\* confidence of the kept segment returned with it.
RangesAsSegments ==
    [ k \in 1..Len(keep_ranges) |->
        [ start |-> keep_ranges[k].start, end |-> keep_ranges[k].end,
          text |-> kept_segments[k].text, confidence |-> kept_segments[k].confidence ] ]

\* The reconciliation of analyze (the keep ranges and the merge) run again on
\* the ranges it returned, by an Analyzer with zero buffers and with no
\* retake groups.  args keeps the ranges that were fed in.
ReconcileAgain ==
    /\ pc = "done"
    /\ entry = "analyze"
    /\ entry' = "reconcile"
    /\ config' = BufferedConfig(0, 0)
    /\ args' = [ ranges |-> keep_ranges ]
    /\ segments' = RangesAsSegments
    /\ retake_groups' = << >>
    /\ ranges_to_remove' = << >>
    /\ removed' = {}
    /\ LET merged == Reconciled(RangesAsSegments, << >>, video_duration, 0, 0)
       IN  /\ keep_ranges' = [ i \in 1..Len(merged) |-> merged[i].range ]
           /\ kept_segments' = [ i \in 1..Len(merged) |-> merged[i].seg ]
    /\ UNCHANGED << guiVars, gemini_client, openai_client, pc, video_duration, silences,
                    group_index, llm_stage, decision, reasoning, judge_calls, selections,
                    blocks, retake_blocks, passes >>

\* analyze and what it calls.  detect_retakes builds no group of one segment,
\* so that branch of select_best_takes is not taken here.
Next ==
    \/ \E segs \in SegmentLists : \E duration \in VideoDurations(segs) :
          Analyze(segs, duration)
    \/ \E outcome \in JudgeOutcomes : QueryGemini(outcome)
    \/ \E outcome \in JudgeOutcomes : QueryOpenAI(outcome)
    \/ SelectBestTake
    \/ Reconcile
    \/ ReconcileAgain

Spec == Init /\ [][Next]_vars

\* select_best_takes called on its own, by an Analyzer built with the Config
\* of config.py.
InitSelect == Init /\ config = BaseConfig

NextSelect ==
    \/ \E groups \in RetakeGroupLists : SelectBestTakes(groups)
    \/ \E outcome \in JudgeOutcomes : QueryGemini(outcome)
    \/ \E outcome \in JudgeOutcomes : QueryOpenAI(outcome)
    \/ SelectBestTake
    \/ SelectOnlyTake
    \/ ReturnGroups

SpecSelect == InitSelect /\ [][NextSelect]_vars

(***************************************************************************)
(* _parse_structured_response and _validate_decision called on their own.   *)
(***************************************************************************)
\* The decimal numeral of n, as a judge writes it.
RECURSIVE Numeral(_)
Numeral(n) == IF n < 10 THEN Char(Digits, n + 1) ELSE Numeral(n \div 10) \o Char(Digits, (n % 10) + 1)

\* Judge responses put together from a DECISION line that holds the number d
\* (None: a line without a number, or no line) and a REASONING line (reason
\* "": no line).  d and reason record what the response was built from.
DecisionLines(d) ==
    IF d = None THEN { "", "DECISION: last", "the last one" }
    ELSE { "DECISION: " \o Numeral(d), "decision:" \o Numeral(d),
           "  Decision: take " \o Numeral(d) \o " (final take, not 1)" }

ReasoningLines(reason) ==
    IF reason = "" THEN { "" } ELSE { "REASONING: " \o reason, "reasoning:  " \o reason \o " " }

JoinLines(a, b) == IF a = "" THEN b ELSE IF b = "" THEN a ELSE a \o "\n" \o b

ParseCases ==
    { [ response |-> text, d |-> d, reason |-> reason ] :
        << d, reason, text >> \in
            UNION { { << d, reason, JoinLines(r, l) >>, << d, reason, JoinLines(l, r) >> } :
                      << d, reason, l, r >> \in
                          UNION { { d } \X { reason } \X DecisionLines(d) \X ReasoningLines(reason) :
                                    << d, reason >> \in ({None} \cup 0..MaxDecision \cup {12})
                                                           \X {"", "take 2 is cleaner"} } } }

\* The TakeMetrics fields _validate_decision reads; TakeMetrics is a plain
\* dataclass, any combination can be handed to it.
TakeMetricsValues ==
    [ word_count : {2}, duration : {MinSegmentDuration}, hesitation_count : {0, 1},
      hesitation_types : { [ t \in MarkerTypes |-> 0 ] },
      incomplete_sentence : BOOLEAN, has_completion_marker : BOOLEAN,
      correction_signals : {0}, position : {0} ]

MetricsLists ==
    UNION { [ 1..n -> TakeMetricsValues ] : n \in 1..MaxTakes }

\* _parse_structured_response(response, num_takes)
ParseStructuredResponse(case, num_takes) ==
    /\ pc = "idle"
    /\ pc' = "done"
    /\ entry' = "_parse_structured_response"
    /\ args' = [ response |-> case.response, num_takes |-> num_takes,
                 d |-> case.d, reason |-> case.reason ]
    /\ LET r == parse_structured_response(case.response, num_takes)
       IN  /\ decision' = r.decision
           /\ reasoning' = r.reasoning
    /\ UNCHANGED << guiVars, analyzerVars, segments, video_duration, silences, retake_groups,
                    group_index, llm_stage, judge_calls, selections, resultVars,
                    blocks, retake_blocks, passes >>

\* _validate_decision(decision, metrics_list); reasoning holds the override
\* reason ("" for None).
ValidateDecision(d, metrics_list) ==
    /\ pc = "idle"
    /\ pc' = "done"
    /\ entry' = "_validate_decision"
    /\ args' = [ decision |-> d, metrics_list |-> metrics_list ]
    /\ LET v == validate_decision(d, metrics_list)
       IN  /\ decision' = v.decision
           /\ reasoning' = v.override_reason
    /\ UNCHANGED << guiVars, analyzerVars, segments, video_duration, silences, retake_groups,
                    group_index, llm_stage, judge_calls, selections, resultVars,
                    blocks, retake_blocks, passes >>

NextDecide ==
    \/ \E case \in ParseCases : \E num_takes \in 1..MaxTakes :
          ParseStructuredResponse(case, num_takes)
    \/ \E metrics_list \in MetricsLists : \E d \in 0..(Len(metrics_list) - 1) :
          ValidateDecision(d, metrics_list)

SpecDecide == InitSelect /\ [][NextDecide]_vars

(***************************************************************************)
(* _find_recording_blocks, _find_retake_blocks and detect_retakes called on *)
(* their own.                                                               *)
(***************************************************************************)
MaxBlockSegs == 4           \* the longest transcript given to _find_recording_blocks
MaxDetectSegs == 4          \* the longest transcript of short takes far apart
MaxRestartSegs == 5         \* the longest block of restarted sentences
MaxBoundarySegs == 2        \* the longest transcript of takes at the thresholds

\* Pauses for the block boundary: 0.5 s, 1.0 s, exactly 3.0 s, 3.05 s, 5.0 s.
BlockGaps == {10, 20, BlockGap, BlockGap + 1, 100}

\* The transcripts of n segments over the given pauses and texts.
RECURSIVE TranscriptsOver(_, _, _)
TranscriptsOver(n, gaps, texts) ==
    IF n = 0 THEN { << >> }
    ELSE { LET s == (IF Len(t) = 0 THEN 0 ELSE t[Len(t)].end) + g
           IN  Append(t, [ start |-> s, end |-> s + MinSegmentDuration, text |-> x,
                           confidence |-> FullConfidence ]) :
             t \in TranscriptsOver(n - 1, gaps, texts), g \in gaps, x \in texts }

\* The transcripts of n segments of the given durations and texts, each
\* starting when the previous one ends.
RECURSIVE TakesOver(_, _, _)
TakesOver(n, durations, texts) ==
    IF n = 0 THEN { << >> }
    ELSE { LET s == IF Len(t) = 0 THEN 0 ELSE t[Len(t)].end
           IN  Append(t, [ start |-> s, end |-> s + d, text |-> x,
                           confidence |-> FullConfidence ]) :
             t \in TakesOver(n - 1, durations, texts), d \in durations, x \in texts }

BlockSegmentLists == UNION { TranscriptsOver(n, BlockGaps, {"ok!"}) : n \in 0..MaxBlockSegs }

\* Short takes: "jo ez" and "jo az" are similar at 0.80, "jo az" and "ju ax"
\* at 0.60, "jo ez" and "ju ax" at 0.40; none has a prefix of 10 characters.
DetectTexts == {"jo ez", "jo az", "ju ax"}

\* Short takes in one block or in blocks 5.0 s apart.
ClusterSegmentLists ==
    UNION { TranscriptsOver(n, {0, 100}, DetectTexts) : n \in 0..(MaxDetectSegs - 1) }

\* Takes at the pass 3 threshold: the first and the second are similar at
\* 32/40 = 0.80, the first and the third at 34/43 = 0.79; the 4-word prefix of
\* each has 9 characters.
BoundaryTexts == {"ez a jo a megoldas ma", "ez a jo a megoldunk", "ez s a mi megoldas mar"}

\* The transcripts given to detect_retakes:
\*  - short takes in blocks 5.0 s apart;
\*  - short takes in blocks 65 s apart (past the 60 s window);
\*  - a sentence that restarts, in blocks 12.5 s apart (past the 10 s window);
\*  - a sentence that restarts in one long block (past the 3 segments pass 2
\*    looks ahead);
\*  - takes at the thresholds: a pair similar at 34/43 = 0.79 whose 4-word
\*    prefixes are shorter than 10 characters, and a pair whose prefixes are
\*    similar at 0.96 and whose texts are similar at 0.73;
\*  - short takes and takes of 65 s in one block;
\*  - takes at the pass 3 threshold in one block.
DetectSegmentLists ==
    ClusterSegmentLists
        \cup UNION { TranscriptsOver(n, {0, 1300}, {"jo ez", "ju ax"}) :
                       n \in 0..MaxDetectSegs }
        \cup UNION { TranscriptsOver(n, {0, 250}, {"na ez az jo.", "ok!"}) :
                       n \in 0..MaxDetectSegs }
        \cup UNION { TranscriptsOver(n, {0}, {"na ez az jo.", "ok!"}) :
                       n \in 0..MaxRestartSegs }
        \cup UNION { TranscriptsOver(n, {0, 100},
                                     {"ez a jo a megoldas ma", "ez s a mi megoldas mar",
                                      "na ez az jo.", "na ez az jo de nem"}) :
                       n \in 0..MaxBoundarySegs }
        \cup UNION { TakesOver(n, {MinSegmentDuration, RetakeWindow + 100},
                                {"jo ez", "ju ax"}) :
                       n \in 0..MaxDetectSegs }
        \cup UNION { TranscriptsOver(n, {0}, BoundaryTexts) :
                       n \in 0..(MaxBoundarySegs + 1) }

\* The strategy that emitted each group of detect_retakes, in order.
GroupPasses(state) ==
    [ g \in 1..Len(state.st3.retake_groups) |->
        IF g <= Len(state.st1.retake_groups) THEN 1
        ELSE IF g <= Len(state.st2.retake_groups) THEN 2 ELSE 3 ]

\* _find_recording_blocks(segments)
FindRecordingBlocks ==
    /\ pc = "idle"
    /\ segments \in BlockSegmentLists
    /\ pc' = "done"
    /\ entry' = "_find_recording_blocks"
    /\ blocks' = find_recording_blocks(segments)
    /\ UNCHANGED << guiVars, analyzerVars, segments, video_duration, silences, retake_groups,
                    group_index, llm_stage, decision, reasoning, judge_calls, selections,
                    resultVars, args, retake_blocks, passes >>

\* _find_retake_blocks(segments)
FindRetakeBlocks ==
    /\ pc = "idle"
    /\ segments \in ClusterSegmentLists
    /\ pc' = "done"
    /\ entry' = "_find_retake_blocks"
    /\ blocks' = find_recording_blocks(segments)
    /\ retake_blocks' = find_retake_blocks(segments)
    /\ UNCHANGED << guiVars, analyzerVars, segments, video_duration, silences, retake_groups,
                    group_index, llm_stage, decision, reasoning, judge_calls, selections,
                    resultVars, args, passes >>

\* detect_retakes(segments)
DetectRetakes ==
    /\ pc = "idle"
    /\ segments \in DetectSegmentLists
    /\ pc' = "done"
    /\ entry' = "detect_retakes"
    /\ blocks' = find_recording_blocks(segments)
    /\ LET state == DetectState(segments, config.retake_similarity)
       IN  /\ retake_blocks' = state.retake_blocks
           /\ retake_groups' = state.st3.retake_groups
           /\ passes' = GroupPasses(state)
    /\ UNCHANGED << guiVars, analyzerVars, segments, video_duration, silences, group_index,
                    llm_stage, decision, reasoning, judge_calls, selections, resultVars,
                    args >>

NextDetect ==
    \/ FindRecordingBlocks
    \/ FindRetakeBlocks
    \/ DetectRetakes

\* An Analyzer built with the Config of config.py and no judge, and the
\* transcript its methods are about to be given.
InitDetect ==
    /\ gemini_client = FALSE
    /\ openai_client = FALSE
    /\ config = BaseConfig
    /\ pc = "idle"
    /\ entry = "none"
    /\ segments \in BlockSegmentLists \cup DetectSegmentLists
    /\ video_duration = 0
    /\ silences = << >>
    /\ retake_groups = << >>
    /\ group_index = 1
    /\ llm_stage = "start"
    /\ decision = None
    /\ reasoning = ""
    /\ judge_calls = << >>
    /\ selections = << >>
    /\ ranges_to_remove = << >>
    /\ removed = {}
    /\ keep_ranges = << >>
    /\ kept_segments = << >>
    /\ args = << >>
    /\ blocks = << >>
    /\ retake_blocks = << >>
    /\ passes = << >>
    /\ controller = NewController
    /\ recorder = NewRecorder
    /\ tokens = << >>
    /\ adjusted_tokens = << >>

SpecDetect == InitDetect /\ [][NextDetect]_vars

(***************************************************************************)
(* detect_silences called on its own.                                       *)
(***************************************************************************)
MaxSilenceSegs == 3         \* the longest transcript given to detect_silences

\* Pauses around the silence threshold: none, 0.2 s, exactly 1.5 s, 1.55 s, 6 s.
SilenceGaps ==
    {0, 4, DefaultSilenceThreshold, DefaultSilenceThreshold + 1, 4 * DefaultSilenceThreshold}

\* What the media lasts after the last segment: nothing, exactly 1.5 s, 1.55 s, 3 s.
SilenceTails ==
    {0, DefaultSilenceThreshold, DefaultSilenceThreshold + 1, 2 * DefaultSilenceThreshold}

\* What a segment lasts: 1.8 s or 2 s.
SpeechDurations == {36, 40}

\* The transcripts of n segments over the given pauses.
RECURSIVE SpeechOver(_, _)
SpeechOver(n, gaps) ==
    IF n = 0 THEN { << >> }
    ELSE { LET s == (IF Len(t) = 0 THEN 0 ELSE t[Len(t)].end) + g
           IN  Append(t, [ start |-> s, end |-> s + d, text |-> "ok!",
                           confidence |-> FullConfidence ]) :
             t \in SpeechOver(n - 1, gaps), g \in gaps, d \in SpeechDurations }

SilenceSegmentLists == UNION { SpeechOver(n, SilenceGaps) : n \in 0..MaxSilenceSegs }

\* The end of the transcript, 0 for an empty one.
SpeechEnd(segs) == IF Len(segs) = 0 THEN 0 ELSE segs[Len(segs)].end

\* detect_silences(segments, video_duration)
DetectSilences ==
    /\ pc = "idle"
    /\ pc' = "done"
    /\ entry' = "detect_silences"
    /\ silences' = detect_silences(segments, video_duration, config.silence_threshold)
    /\ UNCHANGED << guiVars, analyzerVars, segments, video_duration, retake_groups, group_index,
                    llm_stage, decision, reasoning, judge_calls, selections, resultVars,
                    callVars >>

NextSilence == DetectSilences

\* An Analyzer built with the Config of config.py and no judge, and the
\* transcript and media duration detect_silences is about to be given.
InitSilence ==
    /\ gemini_client = FALSE
    /\ openai_client = FALSE
    /\ config = BaseConfig
    /\ pc = "idle"
    /\ entry = "none"
    /\ segments \in SilenceSegmentLists
    /\ video_duration \in { SpeechEnd(segments) + t : t \in SilenceTails }
    /\ silences = << >>
    /\ retake_groups = << >>
    /\ group_index = 1
    /\ llm_stage = "start"
    /\ decision = None
    /\ reasoning = ""
    /\ judge_calls = << >>
    /\ selections = << >>
    /\ ranges_to_remove = << >>
    /\ removed = {}
    /\ keep_ranges = << >>
    /\ kept_segments = << >>
    /\ args = << >>
    /\ blocks = << >>
    /\ retake_blocks = << >>
    /\ passes = << >>
    /\ controller = NewController
    /\ recorder = NewRecorder
    /\ tokens = << >>
    /\ adjusted_tokens = << >>

SpecSilence == InitSilence /\ [][NextSilence]_vars

(***************************************************************************)
(* RecordingController driven through its public methods, with the         *)
(* QMediaRecorder's report of StoppedState as a step of its own.            *)
(***************************************************************************)
MaxRecordings == 3          \* the most recordings started and stops reported

\* start_recording: refused outside IDLE; record() and recording_started, or
\* recording_error when the try block raises.
start_recording(c, ok) ==
    IF c.state # "IDLE"
    THEN [ c EXCEPT !.last = "start_recording", !.emitted = << >> ]
    ELSE IF ok
    THEN [ c EXCEPT !.state = "RECORDING", !.recorder_state = "RecordingState",
                    !.stop_pending = FALSE, !.last = "start_recording",
                    !.emitted = << "recording_started" >>, !.starts = @ + 1 ]
    ELSE [ c EXCEPT !.last = "start_recording", !.emitted = << "recording_error" >> ]

\* stop_recording: outside RECORDING and PAUSED nothing; else QMediaRecorder.stop(),
\* which a recorder that is not stopped answers later with StoppedState.
stop_recording(c) ==
    IF c.state \notin {"RECORDING", "PAUSED"}
    THEN [ c EXCEPT !.last = "stop_recording", !.emitted = << >> ]
    ELSE [ c EXCEPT !.stop_pending = @ \/ c.recorder_state # "StoppedState",
                    !.last = "stop_recording", !.emitted = << >> ]

\* pause_recording: outside RECORDING nothing; else QMediaRecorder.pause(), PAUSED.
pause_recording(c) ==
    IF c.state # "RECORDING"
    THEN [ c EXCEPT !.last = "pause_recording", !.emitted = << >> ]
    ELSE [ c EXCEPT !.state = "PAUSED",
                    !.recorder_state = IF c.stop_pending \/ @ = "StoppedState"
                                       THEN @ ELSE "PausedState",
                    !.last = "pause_recording", !.emitted = << >> ]

\* resume_recording: outside PAUSED nothing; else QMediaRecorder.record(), RECORDING.
resume_recording(c) ==
    IF c.state # "PAUSED"
    THEN [ c EXCEPT !.last = "resume_recording", !.emitted = << >> ]
    ELSE [ c EXCEPT !.state = "RECORDING",
                    !.recorder_state = IF c.stop_pending THEN @ ELSE "RecordingState",
                    !.last = "resume_recording", !.emitted = << >> ]

\* _on_recorder_state_changed(StoppedState): finalize if the controller is RECORDING.
on_recorder_state_changed(c, file_exists) ==
    LET stopped == [ c EXCEPT !.recorder_state = "StoppedState", !.stop_pending = FALSE,
                              !.last = "_on_recorder_state_changed",
                              !.emitted = << >>, !.reports = @ + 1 ]
    IN  IF FinalizesIn(c.state) THEN finalize_recording(stopped, file_exists) ELSE stopped

otherThanController ==
    << gemini_client, openai_client, config, pc, entry, segments, video_duration,
       silences, retake_groups, group_index, llm_stage, decision, reasoning,
       judge_calls, selections, ranges_to_remove, removed, keep_ranges,
       kept_segments, args, blocks, retake_blocks, passes, recorder, tokens,
       adjusted_tokens >>

StartRecording ==
    /\ controller.starts < MaxRecordings
    /\ \E ok \in BOOLEAN : controller' = start_recording(controller, ok)
    /\ UNCHANGED otherThanController

StopRecording ==
    /\ controller.reports < MaxRecordings
    /\ controller' = stop_recording(controller)
    /\ UNCHANGED otherThanController

PauseRecording ==
    /\ controller' = pause_recording(controller)
    /\ UNCHANGED otherThanController

ResumeRecording ==
    /\ controller' = resume_recording(controller)
    /\ UNCHANGED otherThanController

\* The QMediaRecorder that was told to stop reports StoppedState.
RecorderStopped ==
    /\ controller.stop_pending
    /\ \E file_exists \in BOOLEAN :
          controller' = on_recorder_state_changed(controller, file_exists)
    /\ UNCHANGED otherThanController

NextController ==
    \/ StartRecording
    \/ StopRecording
    \/ PauseRecording
    \/ ResumeRecording
    \/ RecorderStopped

\* The recorder tab as it opens: no analysis has run.
InitGui == Init /\ config = BaseConfig /\ ~gemini_client /\ ~openai_client

SpecController == InitGui /\ [][NextController]_vars

(***************************************************************************)
(* FFmpegRecorder driven through start_recording and stop_recording, with   *)
(* its finalize thread and the queued _finalize_done signal as steps of     *)
(* their own.                                                               *)
(***************************************************************************)
\* What _FFmpegFinalizeWorker.run returns: failure because the recording file
\* was not created, or success, with a warning when the remux it had to do failed.
FinalizeResults(remux) ==
    { [ success |-> FALSE, warning |-> FALSE ], [ success |-> TRUE, warning |-> FALSE ] }
    \cup { [ success |-> TRUE, warning |-> TRUE ] : needed \in {remux} \ {FALSE} }

\* FFmpegRecorder.start_recording: False outside IDLE; else Popen, RECORDING and
\* recording_started, or recording_error when Popen raises.
recorder_start_recording(r, remux, popen_ok) ==
    IF r.state # "IDLE"
    THEN [ r EXCEPT !.last = "start_recording", !.returned = "False", !.emitted = << >> ]
    ELSE IF popen_ok
    THEN [ r EXCEPT !.state = "RECORDING", !.process = TRUE, !.remux = remux,
                    !.last = "start_recording",
                    !.returned = "True", !.emitted = << "recording_started" >>,
                    !.launched = @ + 1 ]
    ELSE [ r EXCEPT !.last = "start_recording", !.returned = "False",
                    !.emitted = << "recording_error" >> ]

\* FFmpegRecorder.stop_recording: nothing outside RECORDING; else STOPPING and a
\* finalize thread started on the process.
recorder_stop_recording(r) ==
    IF r.state # "RECORDING"
    THEN [ r EXCEPT !.last = "stop_recording", !.returned = "None", !.emitted = << >> ]
    ELSE [ r EXCEPT !.state = StateWhileFinalizing, !.threads = @ + 1,
                    !.last = "stop_recording", !.returned = "None", !.emitted = << >>,
                    !.stops = @ + 1 ]

\* run_finalize, in the finalize thread: worker.run() ends and _finalize_done is
\* emitted, which Qt queues for the recorder's thread.
run_finalize(r, result) ==
    [ r EXCEPT !.threads = @ - 1, !.queued = Append(@, result),
               !.last = "run_finalize", !.returned = "None", !.emitted = << >> ]

\* _on_finalize_done, in the recorder's thread: IDLE, the process and the thread
\* forgotten, then recording_warning if there is one and recording_stopped or
\* recording_error.
on_finalize_done(r) ==
    LET result == Head(r.queued)
        outcome == IF result.success THEN "recording_stopped" ELSE "recording_error"
    IN  [ r EXCEPT !.state = "IDLE", !.process = FALSE, !.queued = Tail(@),
                   !.last = "_on_finalize_done", !.returned = "None",
                   !.emitted = IF result.warning THEN << "recording_warning", outcome >>
                                                 ELSE << outcome >>,
                   !.outcomes = Append(@, outcome) ]

otherThanRecorder ==
    << gemini_client, openai_client, config, pc, entry, segments, video_duration,
       silences, retake_groups, group_index, llm_stage, decision, reasoning,
       judge_calls, selections, ranges_to_remove, removed, keep_ranges,
       kept_segments, args, blocks, retake_blocks, passes, controller, tokens,
       adjusted_tokens >>

RecorderStart ==
    /\ recorder.launched < MaxRecordings
    /\ \E remux \in BOOLEAN, popen_ok \in BOOLEAN :
          recorder' = recorder_start_recording(recorder, remux, popen_ok)
    /\ UNCHANGED otherThanRecorder

RecorderStop ==
    /\ recorder.stops < MaxRecordings
    /\ recorder' = recorder_stop_recording(recorder)
    /\ UNCHANGED otherThanRecorder

FinalizeRun ==
    /\ recorder.threads > 0
    /\ \E result \in FinalizeResults(recorder.remux) :
          recorder' = run_finalize(recorder, result)
    /\ UNCHANGED otherThanRecorder

OnFinalizeDone ==
    /\ recorder.queued # << >>
    /\ recorder' = on_finalize_done(recorder)
    /\ UNCHANGED otherThanRecorder

NextRecorder ==
    \/ RecorderStart
    \/ RecorderStop
    \/ FinalizeRun
    \/ OnFinalizeDone

\* The finalize thread runs to its end (the worker waits for ffmpeg at most
\* 10 s and 5 s, then kills it) and Qt's event loop delivers the queued signal.
SpecRecorder ==
    InitGui /\ [][NextRecorder]_vars /\ WF_vars(FinalizeRun) /\ WF_vars(OnFinalizeDone)

(***************************************************************************)
(* _adjust_tokens_for_cuts called on its own, on tokens in any order and    *)
(* on keep ranges that do not overlap, in any order.                        *)
(***************************************************************************)
MaxTokens == 2              \* the most tokens given to _adjust_tokens_for_cuts
MaxRanges == 2              \* the most keep ranges given to _adjust_tokens_for_cuts

TokenStarts == {0, 2, 3, 5}
TokenDurations == {1, 3}
RangeBounds == {0, 2, 3, 5}
TokenTexts == << "egy", "ket", "har", "negy" >>

\* The token lists of length n: the i-th token carries the i-th text.
RECURSIVE TokensOver(_)
TokensOver(n) ==
    IF n = 0 THEN { << >> }
    ELSE { Append(ts, Token(TokenTexts[n], s, s + d)) :
             ts \in TokensOver(n - 1), s \in TokenStarts, d \in TokenDurations }

TokenLists == UNION { TokensOver(n) : n \in 0..MaxTokens }

\* The ranges: start <= end.
RangePairs == { r \in [ start : RangeBounds, end : RangeBounds ] : r.start <= r.end }

\* The lists of n ranges no two of which overlap.
RECURSIVE RangesOver(_)
RangesOver(n) ==
    IF n = 0 THEN { << >> }
    ELSE { rs \in { Append(before, r) : before \in RangesOver(n - 1), r \in RangePairs } :
             \A j \in 1..(n - 1) : ~(rs[j].start < rs[n].end /\ rs[n].start < rs[j].end) }

KeepRangeLists == UNION { RangesOver(n) : n \in 0..MaxRanges }

AdjustTokens ==
    /\ pc = "idle"
    /\ pc' = "done"
    /\ entry' = "_adjust_tokens_for_cuts"
    /\ adjusted_tokens' = adjust_tokens_for_cuts(tokens, keep_ranges, SegmentGap)
    /\ UNCHANGED << analyzerVars, callVars, segments, video_duration, silences,
                    retake_groups, group_index, llm_stage, decision, reasoning,
                    judge_calls, selections, ranges_to_remove, removed, keep_ranges,
                    kept_segments, controller, recorder, tokens >>

NextAdjust == AdjustTokens

\* The tokens of a transcription and the keep ranges of an analysis, as main()
\* and the main window hand them to _adjust_tokens_for_cuts.
InitAdjust ==
    /\ gemini_client = FALSE
    /\ openai_client = FALSE
    /\ config = BaseConfig
    /\ pc = "idle"
    /\ entry = "none"
    /\ segments = << >>
    /\ video_duration = 0
    /\ silences = << >>
    /\ retake_groups = << >>
    /\ group_index = 1
    /\ llm_stage = "start"
    /\ decision = None
    /\ reasoning = ""
    /\ judge_calls = << >>
    /\ selections = << >>
    /\ ranges_to_remove = << >>
    /\ removed = {}
    /\ keep_ranges \in KeepRangeLists
    /\ kept_segments = << >>
    /\ args = << >>
    /\ blocks = << >>
    /\ retake_blocks = << >>
    /\ passes = << >>
    /\ controller = NewController
    /\ recorder = NewRecorder
    /\ tokens \in TokenLists
    /\ adjusted_tokens = << >>

SpecAdjust == InitAdjust /\ [][NextAdjust]_vars

(***************************************************************************)
(* The GUI's reading of the result (MainWindow._analyze_video).             *)
(***************************************************************************)
\* is_kept: whether a segment lies inside one of the keep ranges.
is_kept(seg, ranges) ==
    \E k \in 1..Len(ranges) : ranges[k].start <= seg.start /\ seg.end <= ranges[k].end

(***************************************************************************)
(* Properties of analyze.                                                   *)
(***************************************************************************)
\* analyze has returned its two lists.
Returned == pc = "done" /\ entry = "analyze"

\* The texts of the segments analyze did not drop, in order.
RECURSIVE KeptTexts(_)
KeptTexts(i) ==
    IF i > Len(segments) THEN << >>
    ELSE (IF i \in removed THEN << >> ELSE << segments[i].text >>) \o KeptTexts(i + 1)

\* A segment lies inside the span of a member of a group.
InsideSpan(seg, member) ==
    member.segment.start <= seg.start /\ seg.end <= member.segment.end

\* C1: the keep-ranges analyze returns are sorted ascending by start and
\* pairwise non-overlapping: a range ends no later than any later range starts.
KeepRangesSortedDisjoint ==
    Returned =>
        \A i \in 1..Len(keep_ranges) : \A j \in (i + 1)..Len(keep_ranges) :
            /\ keep_ranges[i].start <= keep_ranges[j].start
            /\ keep_ranges[i].end <= keep_ranges[j].start

\* analyze has returned two keep-ranges or more, for media that holds every segment.
SeveralKeepRanges ==
    /\ Returned
    /\ Len(keep_ranges) >= 2
    /\ video_duration >= LastEnd(segments)

SingleSelection ==
    Returned =>
        /\ \A g \in 1..Len(retake_groups) :
              LET group == retake_groups[g]
              IN  Len(group.segments) >= 2 =>
                    /\ group.best_index \in 0..(Len(group.segments) - 1)
                    /\ \A k \in 1..Len(group.segments) : \A i \in 1..Len(segments) :
                          InsideSpan(segments[i], group.segments[k]) =>
                              (i \in removed <=> k - 1 # group.best_index)
        /\ join([ k \in 1..Len(kept_segments) |-> kept_segments[k].text ])
              = join(KeptTexts(1))

\* analyze has returned after choosing among the takes of a group one of which
\* is a whole recording block of several segments.
BlockGroupSelected ==
    /\ Returned
    /\ removed # {}
    /\ Len(keep_ranges) >= 1
    /\ \E g \in 1..Len(retake_groups) : \E k \in 1..Len(retake_groups[g].segments) :
          retake_groups[g].segments[k].first < retake_groups[g].segments[k].last

Selected == { k \in 1..Len(selections) : Len(retake_groups[k].segments) >= 2 }

TakesOf(k) == Len(retake_groups[k].segments)

MetricsOf(k) == MetricsList(retake_groups[k])

Contains(s, sub) ==
    \E i \in 1..(Len(s) - Len(sub) + 1) : SubSeq(s, i, i + Len(sub) - 1) = sub

RuleBasedReason == "rule-based: selected last complete take"

\* Replies that hold no decision at all, and a decision out of range.
MalformedResponses == {"", "DECISION: last"}

OutOfRangeResponse == "REASONING: ok\nDECISION: 0"

AllRaised(calls) == \A c \in 1..Len(calls) : calls[c].outcome = Raise

\* C7: every group select_best_takes has gone through has a best_index that is
\* a valid index into the group, whatever the judge did.
BestIndexValid ==
    \A g \in 1..Len(retake_groups) :
        (g < group_index \/ pc = "done") =>
            /\ retake_groups[g].best_index >= 0
            /\ retake_groups[g].best_index < Len(retake_groups[g].segments)

\* select_best_takes has returned after a judge answered with a decision out
\* of range.
ReturnedAfterOutOfRange ==
    /\ pc = "done"
    /\ entry = "select_best_takes"
    /\ \E k \in Selected :
          /\ selections[k].judge_calls # << >>
          /\ selections[k].judge_calls[1].outcome = OutOfRangeResponse

\* C8 as stated: when every call to a judge failed, by raising or by a reply
\* that holds no decision, the selection is the rule-based one.
JudgeFailureIsNoDecision ==
    \A k \in Selected :
        (\A c \in 1..Len(selections[k].judge_calls) :
            \/ selections[k].judge_calls[c].outcome = Raise
            \/ selections[k].judge_calls[c].outcome \in MalformedResponses)
        => /\ selections[k].best_index = fallback_selection(MetricsOf(k))
           /\ selections[k].reasoning = RuleBasedReason

\* C8, amended: a judge call that raises is no decision; when every call
\* raised, or no judge is configured, the selection is the rule-based one; a
\* reply that holds no decision is the decision for the last take, which goes
\* through validation; the configured judges are called in order, OpenAI only
\* while there is no decision; the selector returns either way.
JudgeRaiseIsNoDecision ==
    \A k \in Selected :
        LET sel == selections[k]
            calls == sel.judge_calls
        IN  /\ AllRaised(calls) =>
                  /\ sel.decision = None
                  /\ sel.best_index = fallback_selection(MetricsOf(k))
                  /\ sel.reasoning = RuleBasedReason
            /\ (calls # << >> /\ calls[Len(calls)].outcome \in MalformedResponses) =>
                  /\ sel.decision = TakesOf(k) - 1
                  /\ sel.best_index =
                        Stage3(TakesOf(k) - 1, "Fallback: defaulting to last take",
                               MetricsOf(k)).decision
                  /\ sel.reasoning # RuleBasedReason
            /\ [ c \in 1..Len(calls) |-> calls[c].judge ] =
                  (IF gemini_client THEN << "gemini" >> ELSE << >>)
                      \o (IF openai_client
                              /\ (~gemini_client \/ calls[1].outcome = Raise)
                          THEN << "openai" >> ELSE << >>)
            /\ sel.best_index \in 0..(TakesOf(k) - 1)

\* The selector has returned the rule-based selection after a judge call raised.
RuleBasedAfterRaise ==
    \E k \in Selected :
        /\ selections[k].judge_calls # << >>
        /\ AllRaised(selections[k].judge_calls)
        /\ selections[k].reasoning = RuleBasedReason

\* A take that has a completion marker and is not flagged incomplete.
Qualifies(m) == m.has_completion_marker /\ ~m.incomplete_sentence

\* C9: with no judge, the selection is the highest index whose take has a
\* completion marker and is not flagged incomplete, the last take when no
\* take qualifies, and the reason is 'rule-based: selected last complete take'.
NoJudgeSelectsLastComplete ==
    \A k \in Selected :
        (~gemini_client /\ ~openai_client) =>
            LET metrics_list == MetricsOf(k)
                qualifying == { i \in 0..(TakesOf(k) - 1) : Qualifies(metrics_list[i + 1]) }
                best == selections[k].best_index
            IN  /\ qualifying # {} => best \in qualifying /\ \A i \in qualifying : i <= best
                /\ qualifying = {} => best = TakesOf(k) - 1
                /\ selections[k].reasoning = RuleBasedReason

\* With no judge, the selector has returned a take that is not the last of a
\* group of three.
NoJudgeEarlierTake ==
    \E k \in Selected :
        /\ ~gemini_client /\ ~openai_client
        /\ TakesOf(k) = 3
        /\ selections[k].best_index < 2

\* The conditions of validation rule 1 on the decision a judge gave.
Rule1Applies(k) ==
    LET metrics_list == MetricsOf(k)
        chosen == metrics_list[selections[k].decision + 1]
        last == metrics_list[TakesOf(k)]
    IN  /\ selections[k].decision # TakesOf(k) - 1
        /\ last.has_completion_marker
        /\ ~chosen.has_completion_marker
        /\ last.hesitation_count <= chosen.hesitation_count

\* C10: when the judge's decision is a take before the last, the last take has
\* a completion marker, the chosen take has none and the last take has no more
\* hesitations than the chosen one, the selection is the last take and its
\* reason contains 'last take is complete'; otherwise rule 1 leaves the
\* decision as it is: the reason does not name rule 1, and the selection is
\* the judge's unless the chosen take is flagged incomplete.
Rule1OverridesToLast ==
    \A k \in Selected :
        selections[k].decision # None =>
            IF Rule1Applies(k)
            THEN /\ selections[k].best_index = TakesOf(k) - 1
                 /\ Contains(selections[k].reasoning, "last take is complete")
            ELSE /\ ~Contains(selections[k].reasoning, "last take is complete")
                 /\ ~MetricsOf(k)[selections[k].decision + 1].incomplete_sentence
                       => selections[k].best_index = selections[k].decision

\* The selector has replaced a judge's decision by the last take under rule 1.
Rule1HasOverridden ==
    \E k \in Selected :
        /\ selections[k].decision # None
        /\ selections[k].decision # selections[k].best_index
        /\ Contains(selections[k].reasoning, "last take is complete")

(***************************************************************************)
(* Properties of _validate_decision and _parse_structured_response.         *)
(***************************************************************************)
Validated == pc = "done" /\ entry = "_validate_decision"

\* The take rule 1 leaves: the last take when its conditions hold of the
\* decision handed in, that decision otherwise.
AfterRule1 ==
    LET m == args.metrics_list
        d == args.decision
    IN  IF /\ d # Len(m) - 1
           /\ m[Len(m)].has_completion_marker
           /\ ~m[d + 1].has_completion_marker
           /\ m[Len(m)].hesitation_count <= m[d + 1].hesitation_count
        THEN Len(m) - 1
        ELSE d

\* The takes that are not flagged incomplete (0-based).
NotIncompleteTakes ==
    { i \in 0..(Len(args.metrics_list) - 1) : ~args.metrics_list[i + 1].incomplete_sentence }

Parsed == pc = "done" /\ entry = "_parse_structured_response"

\* Whether the number of the DECISION line names one of the takes.
DecisionInRange == args.d # None /\ 1 <= args.d /\ args.d <= args.num_takes

\* C12 as stated: a DECISION number d with 1 <= d <= N is parsed as d - 1 with
\* the text of the REASONING line; anything else is parsed as the last take
\* with the reason 'fallback: defaulting to last take'.
ParseDefaultsWithLowercaseReason ==
    Parsed =>
        IF DecisionInRange
        THEN decision = args.d - 1 /\ reasoning = args.reason
        ELSE decision = args.num_takes - 1
                 /\ reasoning = "fallback: defaulting to last take"

\* C12, amended: as above, the reason of the default being
\* 'Fallback: defaulting to last take'.
ParseDefaultsToLastTake ==
    Parsed =>
        IF DecisionInRange
        THEN decision = args.d - 1 /\ reasoning = args.reason
        ELSE decision = args.num_takes - 1
                 /\ reasoning = "Fallback: defaulting to last take"

\* A response whose DECISION number is past the last take has been parsed, and
\* one whose number names an earlier take, with its REASONING line.
ParsedPastLastTake ==
    /\ Parsed
    /\ args.d # None
    /\ args.d > args.num_takes
    /\ args.reason # ""
    /\ decision = args.num_takes - 1

\* The judge calls made for one group respect the chain: no judge twice,
\* Gemini first, OpenAI only after every earlier call raised.
WithinJudgeChain(calls) ==
    /\ \A a \in 1..Len(calls) : \A b \in 1..Len(calls) :
          a # b => calls[a].judge # calls[b].judge
    /\ \A c \in 1..Len(calls) :
          /\ calls[c].judge = "gemini" => gemini_client /\ c = 1
          /\ calls[c].judge = "openai" =>
                openai_client /\ \A b \in 1..(c - 1) : calls[b].outcome = Raise

\* C13: a group of one member gets index 0 without a judge call; for a group
\* of two members or more each configured judge is called at most once,
\* Gemini first and OpenAI only when Gemini gave no decision, at every point
\* of the selection and when it has returned.
JudgeCallsBounded ==
    /\ WithinJudgeChain(judge_calls)
    /\ \A k \in 1..Len(selections) :
          IF TakesOf(k) = 1
          THEN selections[k].judge_calls = << >> /\ selections[k].best_index = 0
          ELSE WithinJudgeChain(selections[k].judge_calls)

\* select_best_takes has returned for a group of one member and a group whose
\* judge was called.
ReturnedAfterOneCall ==
    /\ pc = "done"
    /\ \E k \in 1..Len(selections) : TakesOf(k) = 1
    /\ \E k \in Selected : Len(selections[k].judge_calls) = 1

(***************************************************************************)
(* Recording blocks and retake groups.                                      *)
(***************************************************************************)
\* The pause after segment i of the transcript, in ticks.
PauseAfter(i) == segments[i + 1].start - segments[i].end

BlocksReturned ==
    /\ pc = "done"
    /\ entry \in {"_find_recording_blocks", "_find_retake_blocks", "detect_retakes"}

\* C14: the recording blocks are consecutive index ranges that cover the
\* transcript in order, no pause inside a block is longer than 3.0 s, every
\* pause between two blocks is longer than 3.0 s, and an empty transcript
\* has no blocks.
BlocksPartitionTranscript ==
    BlocksReturned =>
        IF Len(segments) = 0 THEN blocks = << >>
        ELSE /\ Len(blocks) >= 1
             /\ blocks[1][1] = 1
             /\ blocks[Len(blocks)][2] = Len(segments)
             /\ \A b \in 1..Len(blocks) :
                    /\ blocks[b][1] <= blocks[b][2]
                    /\ \A i \in blocks[b][1]..(blocks[b][2] - 1) : PauseAfter(i) <= BlockGap
             /\ \A b \in 1..(Len(blocks) - 1) :
                    /\ blocks[b + 1][1] = blocks[b][2] + 1
                    /\ PauseAfter(blocks[b][2]) > BlockGap

\* Four segments with pauses of 0.5 s, 1.0 s and 5.0 s make two blocks.
TwoBlocksOfFour ==
    /\ pc = "done"
    /\ entry = "_find_recording_blocks"
    /\ Len(segments) = 4
    /\ PauseAfter(1) = 10
    /\ PauseAfter(2) = 20
    /\ PauseAfter(3) = 100
    /\ blocks = << << 1, 3 >>, << 4, 4 >> >>

DetectReturned == pc = "done" /\ entry = "detect_retakes"

\* The members of the returned groups, as << group, member >> positions.
GroupMembers ==
    UNION { { << g, m >> : m \in 1..Len(retake_groups[g].segments) } :
              g \in 1..Len(retake_groups) }

\* The original segment indices a member stands for.
IndicesOf(gm) ==
    retake_groups[gm[1]].segments[gm[2]].first..retake_groups[gm[1]].segments[gm[2]].last

\* The original segment indices of all members of group g.
GroupIndices(g) ==
    UNION { IndicesOf(<< g, m >>) : m \in 1..Len(retake_groups[g].segments) }

\* C15: no original segment index belongs to two members of the groups
\* detect_retakes returns, and a group of a later pass has no segment of a
\* group of an earlier pass.
SegmentsClaimedOnce ==
    DetectReturned =>
        /\ \A gm1 \in GroupMembers : \A gm2 \in GroupMembers :
               gm1 # gm2 => IndicesOf(gm1) \cap IndicesOf(gm2) = {}
        /\ \A g1 \in 1..Len(retake_groups) : \A g2 \in 1..Len(retake_groups) :
               passes[g1] < passes[g2] => GroupIndices(g1) \cap GroupIndices(g2) = {}

\* Two passes each emitted a group, and a segment was left in no group.
TwoPassesEmitted ==
    /\ DetectReturned
    /\ \E g1 \in 1..Len(retake_groups) : \E g2 \in 1..Len(retake_groups) :
           passes[g1] < passes[g2]
    /\ \E i \in 1..Len(segments) : \A g \in 1..Len(retake_groups) : i \notin GroupIndices(g)

\* The text similarity ratio of segments i and j of the transcript.
TextRatio(i, j) == fuzz_ratio(lower(segments[i].text), lower(segments[j].text))

\* The ratio is exactly 0.80.
RatioIsEighty(i, j) == TextRatio(i, j).num * 100 = 80 * TextRatio(i, j).den

\* The ratio is 0.79 to two decimals.
RatioIsSeventyNine(i, j) ==
    /\ TextRatio(i, j).num * 1000 >= 785 * TextRatio(i, j).den
    /\ TextRatio(i, j).num * 1000 < 795 * TextRatio(i, j).den

\* Segments i and j are in one returned group.
GroupedTogether(i, j) ==
    \E g \in 1..Len(retake_groups) : i \in GroupIndices(g) /\ j \in GroupIndices(g)

\* C16 as stated: whatever the passes did before, two segments similar at
\* exactly 0.80 are in one group and two segments similar at 0.79 are not.
SimilarityAloneDecidesGrouping ==
    DetectReturned =>
        \A i \in 1..Len(segments) : \A j \in (i + 1)..Len(segments) :
            /\ RatioIsEighty(i, j) => GroupedTogether(i, j)
            /\ RatioIsSeventyNine(i, j) => ~GroupedTogether(i, j)

\* The segments in groups of passes 1 and 2.
ClaimedBeforePass3 ==
    UNION { GroupIndices(g) : g \in { h \in 1..Len(retake_groups) : passes[h] < 3 } }

\* Segment k was unclaimed when pass 3 scanned from segment i: no group of
\* passes 1 and 2 has it, and no pass 3 group anchored before i.
UnclaimedAt(k, i) ==
    /\ k \notin ClaimedBeforePass3
    /\ \A g \in 1..Len(retake_groups) :
           (passes[g] = 3 /\ retake_groups[g].segments[1].first < i) => k \notin GroupIndices(g)

\* Pass 3 anchored on segment i and compared it with segment j: both were
\* unclaimed, and the scan from i reached j before a segment starting more
\* than 60.0 s after i's end.
ComparedByPass3(i, j) ==
    /\ i < j
    /\ UnclaimedAt(i, i)
    /\ UnclaimedAt(j, i)
    /\ \A k \in (i + 1)..j :
           UnclaimedAt(k, i) => segments[k].start - segments[i].end <= RetakeWindow

\* C16, amended: of two segments pass 3 compares at retake_similarity 0.80, a
\* pair similar at exactly 0.80 is in one group and a pair similar at 0.79 is
\* not.
SimilarityDecidesInPass3 ==
    DetectReturned =>
        \A i \in 1..Len(segments) : \A j \in (i + 1)..Len(segments) :
            ComparedByPass3(i, j) =>
                /\ RatioIsEighty(i, j) => GroupedTogether(i, j)
                /\ RatioIsSeventyNine(i, j) => ~GroupedTogether(i, j)

\* Pass 3 grouped a take with one similar at exactly 0.80 and left out one
\* similar at 0.79.
GroupedAtEightyNotAtSeventyNine ==
    /\ DetectReturned
    /\ config.retake_similarity = 80
    /\ \E i \in 1..Len(segments) : \E j \in 1..Len(segments) : \E k \in 1..Len(segments) :
           /\ ComparedByPass3(i, j) /\ RatioIsEighty(i, j) /\ GroupedTogether(i, j)
           /\ ComparedByPass3(i, k) /\ RatioIsSeventyNine(i, k) /\ ~GroupedTogether(i, k)

\* C17: every group detect_retakes returns has two members or more.
NoSingleMemberGroup ==
    DetectReturned => \A g \in 1..Len(retake_groups) : Len(retake_groups[g].segments) >= 2

\* Pass 3 anchored on the last segment, found nothing after it and dropped
\* its group of one, while another group was returned.
SingleMemberGroupDropped ==
    /\ DetectReturned
    /\ Len(retake_groups) >= 1
    /\ Len(segments) >= 1
    /\ \A g \in 1..Len(retake_groups) : Len(segments) \notin GroupIndices(g)

ClustersReturned == pc = "done" /\ entry \in {"_find_retake_blocks", "detect_retakes"}

\* The position in blocks of member m of cluster c of retake_blocks.
BlockOf(c, m) == CHOOSE b \in 1..Len(blocks) : blocks[b] = retake_blocks[c][m]

\* Block b joined cluster c after its first block.
JoinedCluster(b, c) == \E m \in 2..Len(retake_blocks[c]) : BlockOf(c, m) = b

\* Block b joined no cluster: the loop reached it unassigned.
ReachedUnassigned(b) == \A c \in 1..Len(retake_blocks) : ~JoinedCluster(b, c)

\* The fingerprints of blocks a and b match.
BlocksMatch(a, b) ==
    FingerprintsSimilar(Fingerprint(segments, blocks[a]), Fingerprint(segments, blocks[b]))

\* The earlier blocks, reached unassigned, that block b matches.
EarlierMatches(b) == { a \in 1..(b - 1) : ReachedUnassigned(a) /\ BlocksMatch(a, b) }

\* C18: the clusters of pass 1 are made of recording blocks, have two blocks
\* or more and share no block; a block joins the cluster of the earliest
\* block, reached unassigned, that it matches, and no other; a block reached
\* unassigned that no later unassigned block matches is in no cluster.
ClustersUnionByFirstMatch ==
    ClustersReturned =>
        /\ \A c \in 1..Len(retake_blocks) :
               /\ Len(retake_blocks[c]) >= 2
               /\ \A m \in 1..Len(retake_blocks[c]) :
                      \E b \in 1..Len(blocks) : blocks[b] = retake_blocks[c][m]
               /\ \A m \in 2..Len(retake_blocks[c]) :
                      /\ BlockOf(c, 1) < BlockOf(c, m)
                      /\ BlocksMatch(BlockOf(c, 1), BlockOf(c, m))
        /\ \A c \in 1..Len(retake_blocks) : \A d \in 1..Len(retake_blocks) :
               \A m \in 1..Len(retake_blocks[c]) : \A k \in 1..Len(retake_blocks[d]) :
                   retake_blocks[c][m] = retake_blocks[d][k] => (c = d /\ m = k)
        /\ \A b \in 1..Len(blocks) :
               IF EarlierMatches(b) = {}
               THEN ReachedUnassigned(b)
               ELSE \E c \in 1..Len(retake_blocks) :
                        /\ JoinedCluster(b, c)
                        /\ \A a \in EarlierMatches(b) : BlockOf(c, 1) <= a
                        /\ BlockOf(c, 1) \in EarlierMatches(b)
        /\ \A a \in 1..Len(blocks) :
               (ReachedUnassigned(a) /\ \A c \in 1..Len(retake_blocks) : BlockOf(c, 1) # a)
                   => \A b \in (a + 1)..Len(blocks) : ~(ReachedUnassigned(b) /\ BlocksMatch(a, b))

\* A block is left alone although it matches a block of a cluster: that
\* block had joined the cluster of an earlier block, which this one does not
\* match.
MatchOfJoinedBlockLeftAlone ==
    /\ pc = "done"
    /\ entry = "_find_retake_blocks"
    /\ Len(retake_blocks) = 1
    /\ \E b \in 1..Len(blocks) : \E a \in 1..(b - 1) :
           /\ JoinedCluster(a, 1)
           /\ BlocksMatch(a, b)
           /\ ~BlocksMatch(BlockOf(1, 1), b)
           /\ \A m \in 1..Len(retake_blocks[1]) : BlockOf(1, m) # b

\* The original index of member m of group g.
MemberIndex(g, m) == retake_groups[g].segments[m].first

\* Segment k was in no group when group g was made.
UnclaimedBefore(k, g) == \A h \in 1..(g - 1) : k \notin GroupIndices(h)

\* The lowercase 4-word prefix of segment i.
PrefixOf(i) == get_segment_prefix(segments[i].text, RestartPrefixWords)

\* Segments i and j pass the prefix test of pass 2.
PrefixesMatch(i, j) ==
    /\ Len(PrefixOf(i)) >= RestartPrefixLen
    /\ Len(PrefixOf(j)) >= RestartPrefixLen
    /\ AtLeast(fuzz_ratio(PrefixOf(i), PrefixOf(j)), RestartSimilarity)

\* C19: a group of pass 2 is a pair (i, j) with i < j <= i + 3, both in no
\* earlier group, j starting at most 10.0 s after i ends, both 4-word
\* prefixes of 10 characters or more and similar at 0.70 or more; no
\* unclaimed segment between i and j passes the prefix test or starts more
\* than 10.0 s after i ends, and i is in no other group.
RestartGroupsArePairs ==
    DetectReturned =>
        \A g \in { h \in 1..Len(retake_groups) : passes[h] = 2 } :
            /\ Len(retake_groups[g].segments) = 2
            /\ LET i == MemberIndex(g, 1)
                   j == MemberIndex(g, 2)
               IN  /\ i < j
                   /\ j <= i + RestartLookahead
                   /\ UnclaimedBefore(i, g)
                   /\ UnclaimedBefore(j, g)
                   /\ segments[j].start - segments[i].end <= RestartWindow
                   /\ PrefixesMatch(i, j)
                   /\ \A k \in (i + 1)..(j - 1) :
                          UnclaimedBefore(k, g) =>
                              /\ ~PrefixesMatch(i, k)
                              /\ segments[k].start - segments[i].end <= RestartWindow
                   /\ \A h \in 1..Len(retake_groups) : h # g => i \notin GroupIndices(h)

\* Pass 2 paired a segment with the second segment after it, the one between
\* them being unclaimed and too short to match.
RestartPairedPastACandidate ==
    /\ DetectReturned
    /\ \E g \in 1..Len(retake_groups) :
           /\ passes[g] = 2
           /\ MemberIndex(g, 2) = MemberIndex(g, 1) + 2
           /\ UnclaimedBefore(MemberIndex(g, 1) + 1, g)
           /\ ~PrefixesMatch(MemberIndex(g, 1), MemberIndex(g, 1) + 1)

\* Segment j is similar to segment i at the configured retake_similarity.
SimilarTo(i, j) == AtLeast(TextRatio(i, j), config.retake_similarity)

\* C20: a group of pass 3 is an anchor i, in no earlier group, followed by
\* later segments in scan order, each in no earlier group, similar to the
\* anchor at retake_similarity or more and starting at most 60.0 s after the
\* anchor ends; and every later segment in no earlier group that is similar
\* to the anchor and is reached before an unclaimed segment starting more
\* than 60.0 s after the anchor ends is in the group.
ResidualGroupsFollowAnchor ==
    DetectReturned =>
        \A g \in { h \in 1..Len(retake_groups) : passes[h] = 3 } :
            LET i == MemberIndex(g, 1)
            IN  /\ UnclaimedBefore(i, g)
                /\ \A m \in 2..Len(retake_groups[g].segments) :
                       /\ MemberIndex(g, m - 1) < MemberIndex(g, m)
                       /\ UnclaimedBefore(MemberIndex(g, m), g)
                       /\ SimilarTo(i, MemberIndex(g, m))
                       /\ segments[MemberIndex(g, m)].start - segments[i].end <= RetakeWindow
                /\ \A j \in (i + 1)..Len(segments) :
                       ( /\ UnclaimedBefore(j, g)
                         /\ SimilarTo(i, j)
                         /\ \A k \in (i + 1)..j :
                                UnclaimedBefore(k, g) =>
                                    segments[k].start - segments[i].end <= RetakeWindow )
                           => j \in GroupIndices(g)

\* Pass 3 grouped an anchor with a similar segment and stopped at a later
\* one that starts more than 60.0 s after the anchor ends, although it is
\* similar to the anchor and in no group.
ResidualScanStoppedAtWindow ==
    /\ DetectReturned
    /\ \E g \in 1..Len(retake_groups) : \E j \in 1..Len(segments) :
           /\ passes[g] = 3
           /\ j > MemberIndex(g, 1)
           /\ SimilarTo(MemberIndex(g, 1), j)
           /\ segments[j].start - segments[MemberIndex(g, 1)].end > RetakeWindow
           /\ \A h \in 1..Len(retake_groups) : j \notin GroupIndices(h)

\* C21: the groups detect_retakes returns carry the ids 0, 1, ... in list
\* order, the groups of pass 1 come before those of pass 2 and those before
\* the groups of pass 3, and every member carries the id of its group.
GroupIdsSequential ==
    DetectReturned =>
        /\ \A g \in 1..Len(retake_groups) :
               /\ retake_groups[g].id = g - 1
               /\ \A m \in 1..Len(retake_groups[g].segments) :
                      retake_groups[g].segments[m].retake_group_id = retake_groups[g].id
        /\ \A g \in 1..Len(retake_groups) : \A h \in (g + 1)..Len(retake_groups) :
               passes[g] <= passes[h]

\* Groups of two passes were returned, the last by pass 3 after it had
\* dropped the group of one of an earlier anchor.
GroupNumberedAfterDroppedGroup ==
    /\ DetectReturned
    /\ Len(retake_groups) >= 2
    /\ passes[1] < 3
    /\ passes[Len(retake_groups)] = 3
    /\ \E i \in 1..Len(segments) :
           /\ i < MemberIndex(Len(retake_groups), 1)
           /\ \A g \in 1..Len(retake_groups) : i \notin GroupIndices(g)

(***************************************************************************)
(* Silences.                                                                *)
(***************************************************************************)
SilencesReturned == pc = "done" /\ entry = "detect_silences"

\* The ranges detect_silences is to report for the transcript and duration.
ExpectedSilences ==
    { TimeRange(0, segments[1].start) :
        i \in { k \in {1} : Len(segments) > 0 /\ segments[1].start > config.silence_threshold } }
    \cup { TimeRange(segments[i].end, segments[i + 1].start) :
             i \in { k \in 1..(Len(segments) - 1) :
                       segments[k + 1].start - segments[k].end > config.silence_threshold } }
    \cup { TimeRange(segments[Len(segments)].end, video_duration) :
             i \in { k \in {1} : /\ Len(segments) > 0
                                 /\ video_duration - segments[Len(segments)].end
                                        > config.silence_threshold } }

\* C22: detect_silences returns, in time order and once each, the leading
\* range if the first segment starts later than the threshold, the range of
\* every pause longer than the threshold, and the trailing range if the media
\* lasts longer than the threshold after the last segment; nothing else.
SilencesAreTheLongGaps ==
    SilencesReturned =>
        /\ { silences[k] : k \in 1..Len(silences) } = ExpectedSilences
        /\ \A k \in 1..(Len(silences) - 1) : silences[k].end <= silences[k + 1].start

\* Segments (0,2), (2.2,4), (10,12) in a media of 15 s give [4,10] and [12,15].
SilencesOfTheExample ==
    /\ SilencesReturned
    /\ Len(segments) = 3
    /\ segments[1].start = 0 /\ segments[1].end = 40
    /\ segments[2].start = 44 /\ segments[2].end = 80
    /\ segments[3].start = 200 /\ segments[3].end = 240
    /\ video_duration = 300
    /\ silences = << TimeRange(80, 200), TimeRange(240, 300) >>

(***************************************************************************)
(* Reconciliation run on its own output.                                    *)
(***************************************************************************)
ReconciledAgain == pc = "done" /\ entry = "reconcile"

\* C23: reconciling the returned keep ranges again, with zero buffers and no
\* retake groups, returns the same ranges; the ranges analyze returns are
\* more than 0.05 s apart.
ReconcileIsIdempotent ==
    /\ ReconciledAgain => keep_ranges = args.ranges
    /\ (Returned \/ ReconciledAgain) =>
           \A k \in 1..(Len(keep_ranges) - 1) :
               keep_ranges[k + 1].start > keep_ranges[k].end + MergeTolerance

\* The second run was given a range that the first run had merged from two
\* buffered segments, and returned it.
ReconciledMergedRangesAgain ==
    /\ ReconciledAgain
    /\ Len(args.ranges) >= 1
    /\ Len(keep_ranges) = Len(args.ranges)
    /\ \E k \in 1..Len(keep_ranges) :
           keep_ranges[k].end - keep_ranges[k].start > 2 * MinSegmentDuration

(***************************************************************************)
(* Input anomalies.                                                         *)
(***************************************************************************)
\* analyze was given an empty transcript or a media of zero duration.
InputAnomaly == entry = "analyze" /\ (Len(segments) = 0 \/ video_duration = 0)

\* C24: given an empty transcript or a media of zero duration, analyze does
\* not raise, its silences and retake groups are empty, and it returns no
\* keep range and no segment.
InputAnomalyGivesEmptyResults ==
    InputAnomaly =>
        /\ pc # "raised"
        /\ silences = << >>
        /\ retake_groups = << >>
        /\ pc = "done" => (keep_ranges = << >> /\ kept_segments = << >>)

(***************************************************************************)
(* Incomplete takes.                                                        *)
(***************************************************************************)
\* Take i (0-based) of group k is flagged incomplete.
Incomplete(k, i) == MetricsOf(k)[i + 1].incomplete_sentence

\* Group k has a take that is not flagged incomplete.
HasCompleteAlternative(k) == \E i \in 0..(TakesOf(k) - 1) : ~Incomplete(k, i)

\* C25 as stated: whatever the judge did, the take selected for a group that
\* has a take not flagged incomplete is not flagged incomplete.
NeverSelectsIncomplete ==
    \A k \in Selected :
        HasCompleteAlternative(k) => ~Incomplete(k, selections[k].best_index)

\* C25, amended: when a judge replied, the take selected for a group that has
\* a take not flagged incomplete is not flagged incomplete; when no judge
\* replied, the selected take is flagged incomplete only if it is the last
\* and no take has a completion marker without being flagged incomplete.
NeverSelectsIncompleteAfterReply ==
    \A k \in Selected :
        /\ (selections[k].decision # None /\ HasCompleteAlternative(k))
               => ~Incomplete(k, selections[k].best_index)
        /\ (selections[k].decision = None /\ Incomplete(k, selections[k].best_index))
               => /\ selections[k].best_index = TakesOf(k) - 1
                  /\ \A i \in 0..(TakesOf(k) - 1) : ~Qualifies(MetricsOf(k)[i + 1])

\* A judge chose an incomplete take and the selector returned another one,
\* not flagged incomplete.
IncompleteChoiceOverridden ==
    \E k \in Selected :
        /\ selections[k].decision # None
        /\ Incomplete(k, selections[k].decision)
        /\ selections[k].best_index # selections[k].decision
        /\ ~Incomplete(k, selections[k].best_index)
        /\ selections[k].reasoning = "override: avoiding incomplete take"

(***************************************************************************)
(* Keep ranges against removed takes.                                       *)
(***************************************************************************)
\* Two time ranges share more than a point.
Intersects(r1, r2) == Max(r1.start, r2.start) < Min(r1.end, r2.end)

AnalyzeEnded == entry = "analyze" /\ pc \in {"done", "raised"}

\* C27: given a transcript that is not empty, analyze ends by returning, and
\* returns a keep range or more.
SpeechGivesKeepRange ==
    (AnalyzeEnded /\ Len(segments) > 0) => (pc = "done" /\ Len(keep_ranges) >= 1)

(***************************************************************************)
(* Properties of the RecordingController.                                   *)
(***************************************************************************)
\* The recorder has just reported the StoppedState that a stop_recording call
\* made in RECORDING or PAUSED asked for.
StopReported == controller.last = "_on_recorder_state_changed"

\* C28: once stop_recording was called in RECORDING or PAUSED and the recorder
\* has reported its stopped state, the controller is IDLE and has emitted
\* exactly one of recording_stopped and recording_error; it is not left in
\* PAUSED or RECORDING, whatever start, pause, resume and stop calls came before.
StopReachesIdle ==
    StopReported =>
        /\ controller.state = "IDLE"
        /\ Len(controller.emitted) = 1
        /\ controller.emitted[1] \in {"recording_stopped", "recording_error"}

(***************************************************************************)
(* Properties of the FFmpegRecorder.                                        *)
(***************************************************************************)
\* The finalize completions a stop_recording call still waits for.
PendingFinalizes == recorder.threads + Len(recorder.queued)

\* A step of the recorder: its state moves only along IDLE -> RECORDING (a
\* start_recording that returns True), RECORDING -> STOPPING (stop_recording)
\* and STOPPING -> IDLE (_on_finalize_done); start_recording outside IDLE
\* returns False and changes nothing else; stop_recording outside RECORDING
\* changes nothing.
RecorderStep ==
    LET changed(fields) == \E f \in fields : recorder'[f] # recorder[f]
    IN  /\ recorder'.state # recorder.state =>
              \/ /\ recorder.state = "IDLE" /\ recorder'.state = "RECORDING"
                 /\ recorder'.last = "start_recording" /\ recorder'.returned = "True"
                 /\ recorder'.launched = recorder.launched + 1
              \/ /\ recorder.state = "RECORDING" /\ recorder'.state = "STOPPING"
                 /\ recorder'.last = "stop_recording"
                 /\ recorder'.stops = recorder.stops + 1
              \/ /\ recorder.state = "STOPPING" /\ recorder'.state = "IDLE"
                 /\ recorder'.last = "_on_finalize_done"
        /\ recorder' # recorder /\ recorder'.last = "start_recording"
              /\ recorder.state # "IDLE" =>
              /\ recorder'.returned = "False"
              /\ ~changed({"state", "process", "remux", "threads", "queued", "launched",
                           "stops", "outcomes"})
        /\ recorder' # recorder /\ recorder'.last = "stop_recording"
              /\ recorder.state # "RECORDING" =>
              /\ recorder'.emitted = << >>
              /\ ~changed({"state", "process", "remux", "threads", "queued", "launched",
                           "stops", "outcomes"})
        /\ recorder'.last = "_on_finalize_done" /\ recorder' # recorder =>
              /\ recorder'.state = "IDLE"
              /\ Cardinality({ i \in 1..Len(recorder'.emitted) :
                       recorder'.emitted[i] \in {"recording_stopped", "recording_error"} }) = 1

\* Every stop_recording made in RECORDING has had its one finalize completion
\* or still waits for it, and one waits exactly while the recorder is STOPPING.
OneFinalizePerStop ==
    /\ recorder.stops = Len(recorder.outcomes) + PendingFinalizes
    /\ PendingFinalizes = IF recorder.state = "STOPPING" THEN 1 ELSE 0
    /\ recorder.process = (recorder.state # "IDLE")

\* C29: the recorder's state moves only IDLE -> RECORDING (successful
\* start_recording), RECORDING -> STOPPING (stop_recording) and STOPPING -> IDLE
\* (finalize done); start_recording outside IDLE returns False and launches no
\* process, stop_recording outside RECORDING does nothing, and each
\* stop_recording in RECORDING is followed by exactly one finalize completion,
\* which returns the recorder to IDLE and emits exactly one of recording_stopped
\* and recording_error, however the finalize thread interleaves with further
\* start and stop calls.
RecorderStateMachine ==
    /\ [][RecorderStep]_vars
    /\ []OneFinalizePerStop
    /\ \A n \in 1..MaxRecordings :
          (recorder.stops = n /\ Len(recorder.outcomes) < n)
              ~> (recorder.state = "IDLE" /\ Len(recorder.outcomes) = n)

\* After one recording was stopped and finalized, a second one is being
\* finalized: its thread has queued _finalize_done, and a start_recording call
\* made before the recorder's thread handled it was refused.
StartRefusedWhileFinalizing ==
    /\ recorder.state = "STOPPING"
    /\ recorder.queued # << >>
    /\ recorder.last = "start_recording"
    /\ recorder.returned = "False"
    /\ recorder.stops = 2
    /\ Len(recorder.outcomes) = 1

(***************************************************************************)
(* Properties of _adjust_tokens_for_cuts.                                   *)
(***************************************************************************)
AdjustReturned == pc = "done" /\ entry = "_adjust_tokens_for_cuts"

\* The keep ranges whose [start, end) holds the token's start.
RangesHolding(token) ==
    { k \in 1..Len(keep_ranges) :
        keep_ranges[k].start <= token.start /\ token.start < keep_ranges[k].end }

\* The ranges that come before range k on the cut timeline.
Preceding(k) ==
    { j \in 1..Len(keep_ranges) :
        \/ keep_ranges[j].start < keep_ranges[k].start
        \/ keep_ranges[j].start = keep_ranges[k].start /\ j < k }

RECURSIVE TimelineBefore(_)
TimelineBefore(js) ==
    IF js = {} THEN 0
    ELSE LET j == CHOOSE j \in js : TRUE
         IN  (keep_ranges[j].end - keep_ranges[j].start) + SegmentGap
             + TimelineBefore(js \ {j})

\* The interval of the cut timeline that range k fills.
CutInterval(k) ==
    [ start |-> TimelineBefore(Preceding(k)),
      end |-> TimelineBefore(Preceding(k)) + (keep_ranges[k].end - keep_ranges[k].start) ]

\* The output tokens that stem from the i-th token.
OutputsOf(i) ==
    { o \in 1..Len(adjusted_tokens) : adjusted_tokens[o].text = tokens[i].text }

\* C30: _adjust_tokens_for_cuts handles each token once: a token whose start
\* lies in [start, end) of a keep range yields exactly one output token, any
\* other token none, and the output token's start and end lie inside the
\* interval its range fills on the cut timeline, which begins at the sum of the
\* durations of the ranges before it plus one segment gap for each of them.
EachTokenAdjustedOnce ==
    AdjustReturned =>
        /\ \A o \in 1..Len(adjusted_tokens) : \E i \in 1..Len(tokens) : o \in OutputsOf(i)
        /\ \A i \in 1..Len(tokens) :
              IF RangesHolding(tokens[i]) = {} THEN OutputsOf(i) = {}
              ELSE /\ Cardinality(OutputsOf(i)) = 1
                   /\ \A o \in OutputsOf(i), k \in RangesHolding(tokens[i]) :
                         /\ CutInterval(k).start <= adjusted_tokens[o].start
                         /\ adjusted_tokens[o].start <= CutInterval(k).end
                         /\ CutInterval(k).start <= adjusted_tokens[o].end
                         /\ adjusted_tokens[o].end <= CutInterval(k).end

\* Of two tokens one lay in no range and was dropped; the other lay in the
\* second range of the cut timeline and reached past its end, and its output
\* ends where that range's interval ends.
TokenClampedInSecondRange ==
    /\ AdjustReturned
    /\ Len(tokens) = 2
    /\ Len(adjusted_tokens) = 1
    /\ \E i \in 1..2, k \in 1..Len(keep_ranges) :
          /\ OutputsOf(i) = {1}
          /\ k \in RangesHolding(tokens[i])
          /\ Preceding(k) # {}
          /\ tokens[i].end > keep_ranges[k].end
          /\ adjusted_tokens[1].end = CutInterval(k).end
          /\ adjusted_tokens[1].start > CutInterval(k).start
====
